---- MODULE Spec2Model ----
(***************************************************************************)
(* Model of the kvk renderer core (src/src/krender.cpp, src/src/utils.cpp): *)
(* the queue families chosen by init, the per-queue command-pool lease pool *)
(* (lockCommandPool / unlockCommandPool), the upload helpers built on       *)
(* immediateSubmit, the frame pacer (startFrame / endFrame), the keys and   *)
(* get-or-create routines of kvk::Cache, the named descriptor sets of      *)
(* DescriptorSetBuilder, and kvk::DescriptorAllocator (with the alloc of   *)
(* src/src/renderer.cpp next to the one of krender.cpp).                   *)
(*                                                                         *)
(* assert() is modelled as it behaves in a build with assertions enabled:  *)
(* a failed assertion terminates the process (aborted = TRUE, no further   *)
(* step).                                                                  *)
(***************************************************************************)
EXTENDS Integers, Sequences, FiniteSets, TLC

\* ---------------------------------------------------------------- bounds
\* largest value std::thread::hardware_concurrency() takes in the lease-pool runs
MaxCores == 2
\* number of application threads that lease command pools
NumThreads == 3
\* largest number of queue families a physical device reports
MaxFamilies == 2
\* largest value std::thread::hardware_concurrency() takes in the frame-pacer runs
MaxFrameCores == 3
\* number of threads that run upload helpers next to the frame loop
NumUploaders == 1
\* number of cleanup callbacks the caller defers per frame cycle
MaxCleanups == 2

\* number of entries of DescriptorSet::descriptors the model keeps (64 in the code)
MaxBindings == 2
\* longest pushConstantRanges / layouts vector of a PipelineLayoutInfo
MaxRanges == 1
MaxLayouts == 2
\* hash values are kept to their low HashBits bits
HashBits == 16

\* number of threads that call the get-or-create routines of the caches
NumCallers == 2
\* number of calls each of them makes
MaxCalls == 2
\* number of descriptor pools the driver lets a DescriptorAllocator create
MaxPools == 3
\* number of calls made on a DescriptorAllocator
MaxAllocatorCalls == 4

\* ------------------------------------------------------------- constants
MAX_IN_FLIGHT_FRAMES == 3

Threads == 1..NumThreads
NoThread == 0

\* VkQueueFlags values (sets of bits)
VK_QUEUE_GRAPHICS_BIT == {"GRAPHICS"}
VK_QUEUE_COMPUTE_BIT == {"COMPUTE"}
VK_QUEUE_TRANSFER_BIT == {"TRANSFER"}
VK_QUEUE_SPARSE_BINDING_BIT == {"SPARSE_BINDING"}
\* the desiredQueueFlags callers pass: graphics (the default), transfer only,
\* and a request that names transfer together with another capability
DesiredFlags == {VK_QUEUE_GRAPHICS_BIT, VK_QUEUE_TRANSFER_BIT,
                 VK_QUEUE_GRAPHICS_BIT \cup VK_QUEUE_TRANSFER_BIT}
NoFlags == {}

\* PoolInfo {Queue* queue; uint32 poolIndex}; NoPoolInfo is the value-initialised {}
NoPoolInfo == [queue |-> -1, poolIndex |-> 0]

VARIABLES
    \* ---- set up by init
    coreCount,        \* std::thread::hardware_concurrency() as read by createQueue
    queueFamilies,    \* VkQueueFamilyProperties of the chosen device: flags, present support
    family,           \* state.graphics/present/compute/transferFamilyIndex
    queues,           \* state.queues[i].familyIndex, i < state.queueCount
    \* ---- the lease pools
    isSlotOccupied,   \* Queue::isSlotOccupied, per queue
    freePoolCount,    \* Queue::freePoolCount, per queue
    poolMutex,        \* Queue::poolMutex: the owning thread or NoThread
    poolCvar,         \* Queue::poolCvar: the threads blocked in wait()
    pc,               \* position of each thread
    desiredQueueFlags,\* lockCommandPool's argument of each thread (NoFlags outside the call)
    familyIndex,      \* lockCommandPool's local familyIndex of each thread (0 outside the call)
    poolInfo,         \* the PoolInfo each thread holds
    waited,           \* history: the thread blocked on poolCvar during its current lease call
    aborted,          \* an assertion failed
    \* ---- the frame pacer, the submit mutexes and the GPU
    currentFrame,     \* state.currentFrame
    frames,           \* state.frames: queue, commandBuffer, inFlightFence, deletionQueue
    fpc,              \* position of the frame-loop thread in startFrame / endFrame
    frameIndex,       \* the frame slot startFrame handed out (its out parameter)
    drainIter,        \* startFrame's reverse iterator: callbacks of deletionQueue still to run
    executed,         \* history: the callbacks the current drain has run, in order
    fenceWaited,      \* history: vkWaitForFences returned VK_SUCCESS in the current startFrame
    submitMutex,      \* Queue::submitMutex: the owning thread or NoThread
    gpuWork,          \* per command buffer: the fence its pending submission signals, or NoFence
    signaled,         \* the fences that are in the signaled state
    ret,              \* what the last startFrame / endFrame call returned
    \* ---- history
    lastResult,       \* the VkResult that decided the last startFrame / endFrame return
    \* ---- operator== and the hash functors of the cache keys
    operandA,         \* the left-hand value (this)
    operandB,         \* the right-hand value (other)
    equalResult,      \* what operator== returned
    hashA,            \* what the hash functor returned for operandA
    hashB,            \* what the hash functor returned for operandB
    vpc,              \* "given" before, "compared" after the calls
    \* ---- kvk::Cache and the callers of its get-or-create routines
    cpc,              \* where each caller is
    call,             \* the routine it is in and the description it passed
    calls,            \* number of calls it has made
    module,           \* shaderModuleFromCache: the local ShaderModule module
    output,           \* what the call has written to its output so far
    cacheMutex,       \* owner of each mutex of the Cache
    shaderModules,    \* cache.shaderModules[path], VK_NULL_HANDLE for no entry
    descriptorLayouts,\* cache.descriptorLayouts: entries key, value
    pipelineLayouts,  \* cache.pipelineLayouts: entries key, value
    descriptors,      \* cache.descriptors[name]: handle and recorded descriptors
    perFrameDescriptors, \* cache.perFrameDescriptors[name][frameIndex]
    builder,          \* the DescriptorSetBuilder of each caller: descriptors, writer
    updates,          \* the vkUpdateDescriptorSets call of each caller's build
    created,          \* number of objects of each kind the driver has created
    destroyed,        \* shader modules passed to vkDestroyShaderModule
    destroyCalls,     \* number of vkDestroyShaderModule calls
    createCalls,      \* the calls that reached the descriptor-set-layout creation
    returned,         \* the calls that returned, with what they returned
    \* ---- one kvk::DescriptorAllocator
    readyPools,
    fullPools,
    setsPerPool,
    poolToUse,        \* alloc: the local poolToUse
    allocResult,      \* alloc: the local result
    apc,              \* the call the allocator is in
    allocatorCalls,   \* number of calls made on it
    poolsCreated,     \* number of vkCreateDescriptorPool calls that succeeded
    poolsFailed,      \* number of vkCreateDescriptorPool calls that failed
    livePools,        \* pools created and not destroyed
    lastCall,         \* the call made last: init, alloc, clearPools, destroyPools
    ratios,           \* the member ratios
    createInfos,      \* the VkDescriptorPoolCreateInfo of each vkCreateDescriptorPool call
    allocReturn,      \* the ReturnCode of the last alloc
    \* ---- the driver's descriptor pools
    poolObjects,      \* per pool handle: what it was created with, the sets allocated
    \* ---- the demo program (src/test/test.cpp)
    renderThreadMutex, \* who holds it: NoOwner, "render" or "winProc"
    isInitialized,    \* state.isInitialized
    allow,
    swapchainExtent,  \* state.swapchainExtent: "zero" if width or height is 0
    renderFrame,      \* the local currentFrame of the render thread
    rpc,              \* where the render thread is
    hpc               \* where the main thread is in winProc

devVars == <<coreCount, queueFamilies, family, queues>>
poolVars == <<isSlotOccupied, freePoolCount, poolMutex, poolCvar,
              pc, desiredQueueFlags, familyIndex, poolInfo, waited, aborted>>

frameVars == <<currentFrame, frames, fpc, frameIndex, drainIter, executed, fenceWaited,
               submitMutex, gpuWork, signaled, ret>>

histVars == <<lastResult>>

valueVars == <<operandA, operandB, equalResult, hashA, hashB, vpc>>

cacheVars == <<cpc, call, calls, module, output, cacheMutex, shaderModules,
               descriptorLayouts, pipelineLayouts, descriptors, perFrameDescriptors,
               builder, updates, created, destroyed, destroyCalls, createCalls, returned>>

allocVars == <<readyPools, fullPools, setsPerPool, poolToUse, allocResult, apc,
               allocatorCalls, poolsCreated, poolsFailed, livePools, lastCall,
               ratios, createInfos, allocReturn>>

driverVars == <<poolObjects>>
demoVars == <<renderThreadMutex, isInitialized, allow, swapchainExtent, renderFrame,
              rpc, hpc>>

vars == <<devVars, poolVars, frameVars, histVars, valueVars, cacheVars, allocVars,
          driverVars, demoVars>>

\* what a run of the lease pool alone, of the frame loop alone, ... leaves as it is
outsidePool == <<frameVars, histVars, valueVars, cacheVars, allocVars,
    driverVars, demoVars>>
outsideFrame == <<histVars, valueVars, cacheVars, allocVars,
    driverVars, demoVars>>
outsideOutcome == <<valueVars, cacheVars, allocVars,
    driverVars, demoVars>>
outsideValues == <<devVars, poolVars, frameVars, histVars, cacheVars, allocVars,
    driverVars, demoVars>>
outsideCaches == <<devVars, poolVars, frameVars, histVars, valueVars, allocVars,
    driverVars, demoVars>>
outsideDriver == <<devVars, poolVars, frameVars, histVars, valueVars, cacheVars, demoVars>>
outsideDemo == <<devVars, poolVars, frameVars, histVars, valueVars, cacheVars, allocVars,
                 driverVars>>
outsideAllocator == <<outsideDriver, driverVars>>

\* the callers of the caches, the mutexes of kvk::Cache, the kinds of driver object
Callers == 1..NumCallers
VK_NULL_HANDLE == 0
NoKey == "none"
CacheMutexes == {"descriptorMutex", "perFrameDescriptorMutex", "descriptorLayoutMutex",
                 "pipelineLayoutMutex", "shaderModuleMutex"}
\* the results of vkAllocateDescriptorSets
PoolExhausted == {"VK_ERROR_OUT_OF_POOL_MEMORY", "VK_ERROR_FRAGMENTED_POOL"}
AllocateResults == {"VK_SUCCESS", "VK_ERROR_OUT_OF_HOST_MEMORY"} \cup PoolExhausted
\* the names build and buildPerFrame are called with
Names == {"gbuffer_pass", "shadow_pass"}
NoName == "none"
\* a DescriptorSet that operator[] has just inserted
NoSet == [handle |-> VK_NULL_HANDLE, descriptors |-> <<>>]
\* a DescriptorSetBuilder no method was called on, and no vkUpdateDescriptorSets
NoBuilder == [descriptors |-> <<>>, writer |-> [writes |-> <<>>, bindingCount |-> 0]]
NoUpdate == [called |-> FALSE, writes |-> <<>>]
ObjectKinds == {"module", "layout", "pipelineLayout", "set"}

\* no call on a cache is going on
CachesIdle ==
    /\ cpc = [t \in Callers |-> "idle"]
    /\ call = [t \in Callers |-> [op |-> "none", name |-> NoName, set |-> NoKey, push |-> FALSE]]
    /\ calls = [t \in Callers |-> 0]
    /\ module = [t \in Callers |-> VK_NULL_HANDLE]
    /\ output = [t \in Callers |-> VK_NULL_HANDLE]
    /\ cacheMutex = [m \in CacheMutexes |-> NoThread]
    /\ shaderModules = VK_NULL_HANDLE
    /\ descriptorLayouts = {}
    /\ pipelineLayouts = {}
    /\ descriptors = [n \in Names |-> NoSet]
    /\ perFrameDescriptors = [n \in Names |-> [i \in 0..(MAX_IN_FLIGHT_FRAMES - 1) |-> NoSet]]
    /\ builder = [t \in Callers |-> NoBuilder]
    /\ updates = [t \in Callers |-> NoUpdate]
    /\ created = [k \in ObjectKinds |-> 0]
    /\ destroyed = {}
    /\ destroyCalls = 0
    /\ createCalls = {}
    /\ returned = {}

\* the allocator before init
AllocatorIdle ==
    /\ readyPools = <<>>
    /\ fullPools = <<>>
    /\ setsPerPool = 0
    /\ poolToUse = VK_NULL_HANDLE
    /\ allocResult = "none"
    /\ apc = "idle"
    /\ allocatorCalls = 0
    /\ poolsCreated = 0
    /\ poolsFailed = 0
    /\ livePools = {}
    /\ lastCall = "none"
    /\ ratios = <<>>
    /\ createInfos = <<>>
    /\ allocReturn = "none"
    /\ poolObjects = <<>>

\* the demo program before main has started the render thread
NoOwner == "none"
DemoIdle ==
    /\ renderThreadMutex = NoOwner
    /\ isInitialized = FALSE
    /\ allow = FALSE
    /\ swapchainExtent = "zero"
    /\ renderFrame = 0
    /\ rpc = "start"
    /\ hpc = "idle"

\* no comparison is going on
ValuesIdle ==
    /\ operandA = "none"
    /\ operandB = "none"
    /\ equalResult = FALSE
    /\ hashA = 0
    /\ hashB = 0
    /\ vpc = "idle"

\* fences: the in-flight fence init creates per frame slot, the fence createQueue
\* creates per command-pool slot, the fence immediateSubmit creates per call
NoFence == <<"none">>
FrameFence(i) == <<"frame", i>>
SlotFence(q, s) == <<"slot", q, s>>
ImmediateFence(t) == <<"immediate", t>>

FrameSlots == 0..(MAX_IN_FLIGHT_FRAMES - 1)
\* the frame-loop thread and the upload threads
Driver == 1
Uploaders == 2..(1 + NumUploaders)
CleanupIds == 1..MaxCleanups

Slots == 0..(coreCount - 1)
\* state.queueCount and the valid indices of state.queues
queueCount == Len(queues)
QueueIds == 0..(queueCount - 1)
\* state.queues[i].familyIndex
QueueFamilyOf(i) == queues[i + 1]

\* ------------------------------------------------ init: queue families
\* one iteration of the loop over queueFamilies: acc carries the four indices
\* and the found flags, i is the 0-based family index
ScanFamily(acc, qf, i) ==
    LET tHit == ("TRANSFER" \in qf.flags) /\ (~acc.transferFound \/ ~acc.dedicated)
        ded == qf.flags = VK_QUEUE_TRANSFER_BIT
               \/ qf.flags = VK_QUEUE_TRANSFER_BIT \cup VK_QUEUE_SPARSE_BINDING_BIT
        gHit == ("GRAPHICS" \in qf.flags) /\ ~acc.graphicsFound
        pHit == ~acc.presentFound /\ qf.present
        cHit == ("COMPUTE" \in qf.flags) /\ ~acc.computeFound
    IN [transfer |-> IF tHit THEN i ELSE acc.transfer,
        transferFound |-> acc.transferFound \/ tHit,
        dedicated |-> acc.dedicated \/ (tHit /\ ded),
        graphics |-> IF gHit THEN i ELSE acc.graphics,
        graphicsFound |-> acc.graphicsFound \/ gHit,
        present |-> IF pHit THEN i ELSE acc.present,
        presentFound |-> acc.presentFound \/ pHit,
        compute |-> IF cHit THEN i ELSE acc.compute,
        computeFound |-> acc.computeFound \/ cHit]

NothingFound ==
    [transfer |-> 0, transferFound |-> FALSE, dedicated |-> FALSE,
     graphics |-> 0, graphicsFound |-> FALSE,
     present |-> 0, presentFound |-> FALSE,
     compute |-> 0, computeFound |-> FALSE]

RECURSIVE ScanFamilies(_, _)
\* the state of the loop after the first n families
ScanFamilies(qfs, n) ==
    IF n = 0 THEN NothingFound
    ELSE ScanFamily(ScanFamilies(qfs, n - 1), qfs[n], n - 1)

SelectFamilies(qfs) == ScanFamilies(qfs, Len(qfs))

\* std::set<uint32_t> uniqueQueueFamilies = {graphics, present, compute, transfer}
UniqueQueueFamilies(f) == {f.graphics, f.present, f.compute, f.transfer}

RECURSIVE Ascending(_)
\* iteration order of the std::set: ascending family index
Ascending(S) ==
    IF S = {} THEN <<>>
    ELSE LET m == CHOOSE x \in S : \A y \in S : x <= y
         IN <<m>> \o Ascending(S \ {m})

\* state.queues[i] is created for the i-th family of the set
CreateQueues(f) == Ascending(UniqueQueueFamilies(f))

\* the queue families a device can report: every combination of graphics,
\* compute and transfer, the dedicated transfer family with sparse binding,
\* each with or without present support
FamilyFlagSets ==
    ((SUBSET {"GRAPHICS", "COMPUTE", "TRANSFER"}) \ {{}})
        \cup {VK_QUEUE_TRANSFER_BIT \cup VK_QUEUE_SPARSE_BINDING_BIT}
FamilyProps == [flags : FamilyFlagSets, present : BOOLEAN]
Devices == UNION {[1..n -> FamilyProps] : n \in 1..MaxFamilies}
\* init goes on to use all four indices; a device on which one of them is not
\* found leaves that index unset and is not modelled
Usable(qfs) ==
    LET f == SelectFamilies(qfs)
    IN f.transferFound /\ f.graphicsFound /\ f.presentFound /\ f.computeFound

\* a device with a graphics family 0 and a dedicated transfer family 1
TwoFamilyDevice ==
    <<[flags |-> {"GRAPHICS", "COMPUTE", "TRANSFER"}, present |-> TRUE],
      [flags |-> VK_QUEUE_TRANSFER_BIT, present |-> FALSE]>>

\* ---------------------------------------------------------- createQueue
\* queue.freePoolCount = coreCount; queue.isSlotOccupied.resize(coreCount, false)
createQueue(cores) ==
    [occupied |-> [s \in 0..(cores - 1) |-> FALSE], free |-> cores]

\* init on the device qfs with the given hardware concurrency
RendererInit(qfs, cores) ==
    /\ coreCount = cores
    /\ queueFamilies = qfs
    /\ family = [graphics |-> SelectFamilies(qfs).graphics,
                 present |-> SelectFamilies(qfs).present,
                 compute |-> SelectFamilies(qfs).compute,
                 transfer |-> SelectFamilies(qfs).transfer]
    /\ queues = CreateQueues(SelectFamilies(qfs))
    /\ isSlotOccupied = [q \in 0..(Len(queues) - 1) |-> createQueue(cores).occupied]
    /\ freePoolCount = [q \in 0..(Len(queues) - 1) |-> createQueue(cores).free]
    /\ poolMutex = [q \in 0..(Len(queues) - 1) |-> NoThread]
    /\ poolCvar = [q \in 0..(Len(queues) - 1) |-> {}]
    /\ pc = [t \in Threads |-> "idle"]
    /\ desiredQueueFlags = [t \in Threads |-> NoFlags]
    /\ familyIndex = [t \in Threads |-> 0]
    /\ poolInfo = [t \in Threads |-> NoPoolInfo]
    /\ waited = [t \in Threads |-> FALSE]
    /\ aborted = FALSE
    /\ currentFrame = 0
    /\ frames = [i \in FrameSlots |->
                    [queue |-> -1, commandBuffer |-> NoPoolInfo,
                     inFlightFence |-> FrameFence(i), deletionQueue |-> <<>>]]
    /\ fpc = "idle"
    /\ frameIndex = 0
    /\ drainIter = 0
    /\ executed = <<>>
    /\ fenceWaited = FALSE
    /\ submitMutex = [q \in 0..(Len(queues) - 1) |-> NoThread]
    /\ gpuWork = [q \in 0..(Len(queues) - 1) |-> [s \in 0..(cores - 1) |-> NoFence]]
    /\ signaled = {FrameFence(i) : i \in FrameSlots}
    /\ ret = "none"
    /\ lastResult = "none"

\* the state after init, with nothing else going on
OthersIdle == CachesIdle /\ AllocatorIdle /\ DemoIdle
InitOn(qfs, cores) ==
    /\ RendererInit(qfs, cores)
    /\ ValuesIdle
    /\ OthersIdle

PoolInit == \E cores \in 1..MaxCores : InitOn(TwoFamilyDevice, cores)

\* -------------------------------------------------------- lockCommandPool
\* if(desiredQueueFlags == VK_QUEUE_TRANSFER_BIT) familyIndex = 1; else familyIndex = 0;
SelectQueue(flags) ==
    IF flags = VK_QUEUE_TRANSFER_BIT THEN 1 ELSE 0

\* the scan "for slotIndex = 0 .. size: if(!isSlotOccupied[slotIndex])": first free index
FreeSlots(q) == {s \in Slots : ~isSlotOccupied[q][s]}
\* mutant: the scan returns the first index without testing isSlotOccupied
FirstSlotUnchecked(q) == 0
FirstFreeSlot(q) == CHOOSE s \in FreeSlots(q) : \A r \in FreeSlots(q) : s <= r

\* mutant: the wait for a free slot is skipped
WaitPredicateAlways(q) == TRUE
\* the wait predicate [&]() { return queue.freePoolCount != 0; }
WaitPredicate(q) == freePoolCount[q] # 0

\* a thread enters lockCommandPool and selects the queue; state.queues[familyIndex]
\* with familyIndex >= queueCount is a read past the end of the array (pc "ub":
\* the behaviour of the call is undefined from there on)
LockCall(t, flags) ==
    /\ ~aborted
    /\ pc[t] = "idle"
    /\ desiredQueueFlags' = [desiredQueueFlags EXCEPT ![t] = flags]
    /\ familyIndex' = [familyIndex EXCEPT ![t] = SelectQueue(flags)]
    /\ pc' = [pc EXCEPT ![t] = IF SelectQueue(flags) \in QueueIds THEN "lock_mutex" ELSE "ub"]
    /\ UNCHANGED <<devVars, isSlotOccupied, freePoolCount, poolMutex, poolCvar,
                   poolInfo, waited, aborted>>

\* std::unique_lock lck(queue.poolMutex), also the re-lock when wait() returns
LockAcquire(t) ==
    /\ ~aborted
    /\ pc[t] = "lock_mutex"
    /\ poolMutex[familyIndex[t]] = NoThread
    /\ poolMutex' = [poolMutex EXCEPT ![familyIndex[t]] = t]
    /\ pc' = [pc EXCEPT ![t] = "lock_locked"]
    /\ UNCHANGED <<devVars, isSlotOccupied, freePoolCount, poolCvar,
                   desiredQueueFlags, familyIndex, poolInfo, waited, aborted>>

\* poolCvar.wait(lck, pred) with the predicate false: unlock and block
LockWait(t) ==
    LET q == familyIndex[t] IN
    /\ ~aborted
    /\ pc[t] = "lock_locked"
    /\ ~WaitPredicate(q)
    /\ poolMutex' = [poolMutex EXCEPT ![q] = NoThread]
    /\ poolCvar' = [poolCvar EXCEPT ![q] = @ \cup {t}]
    /\ waited' = [waited EXCEPT ![t] = TRUE]
    /\ pc' = [pc EXCEPT ![t] = "lock_wait"]
    /\ UNCHANGED <<devVars, isSlotOccupied, freePoolCount, desiredQueueFlags,
                   familyIndex, poolInfo, aborted>>

\* mutant: the slot is marked and handed out, the free count is not decremented
LockTakeUncounted(t) ==
    LET q == familyIndex[t] IN
    /\ ~aborted
    /\ pc[t] = "lock_locked"
    /\ WaitPredicate(q)
    /\ IF FreeSlots(q) # {}
       THEN /\ isSlotOccupied' = [isSlotOccupied EXCEPT ![q][FirstFreeSlot(q)] = TRUE]
            /\ poolInfo' = [poolInfo EXCEPT ![t] = [queue |-> q, poolIndex |-> FirstFreeSlot(q)]]
            /\ poolMutex' = [poolMutex EXCEPT ![q] = NoThread]
            /\ pc' = [pc EXCEPT ![t] = "holding"]
            /\ familyIndex' = [familyIndex EXCEPT ![t] = 0]
            /\ desiredQueueFlags' = [desiredQueueFlags EXCEPT ![t] = NoFlags]
            /\ UNCHANGED <<aborted, freePoolCount>>
       ELSE /\ aborted' = TRUE
            /\ UNCHANGED <<isSlotOccupied, freePoolCount, poolInfo, poolMutex, pc,
                           familyIndex, desiredQueueFlags>>
    /\ UNCHANGED <<devVars, poolCvar, waited>>

\* mutant: the lease is handed out from a copy of the Queue, so the occupancy
\* mark and the free count of the real Queue stay as they were
LockTakeOnCopy(t) ==
    LET q == familyIndex[t] IN
    /\ ~aborted
    /\ pc[t] = "lock_locked"
    /\ WaitPredicate(q)
    /\ FreeSlots(q) # {}
    /\ poolInfo' = [poolInfo EXCEPT ![t] = [queue |-> q, poolIndex |-> FirstFreeSlot(q)]]
    /\ poolMutex' = [poolMutex EXCEPT ![q] = NoThread]
    /\ pc' = [pc EXCEPT ![t] = "holding"]
    /\ familyIndex' = [familyIndex EXCEPT ![t] = 0]
    /\ desiredQueueFlags' = [desiredQueueFlags EXCEPT ![t] = NoFlags]
    /\ UNCHANGED <<devVars, isSlotOccupied, freePoolCount, poolCvar, waited, aborted>>

\* the scan loop, the lease, and the release of the unique_lock on return;
\* assert(false) when the scan finds no free slot
LockTake(t) ==
    LET q == familyIndex[t] IN
    /\ ~aborted
    /\ pc[t] = "lock_locked"
    /\ WaitPredicate(q)
    /\ IF FreeSlots(q) # {}
       THEN /\ isSlotOccupied' = [isSlotOccupied EXCEPT ![q][FirstFreeSlot(q)] = TRUE]
            /\ freePoolCount' = [freePoolCount EXCEPT ![q] = @ - 1]
            /\ poolInfo' = [poolInfo EXCEPT ![t] = [queue |-> q, poolIndex |-> FirstFreeSlot(q)]]
            /\ poolMutex' = [poolMutex EXCEPT ![q] = NoThread]
            /\ pc' = [pc EXCEPT ![t] = "holding"]
            /\ familyIndex' = [familyIndex EXCEPT ![t] = 0]
            /\ desiredQueueFlags' = [desiredQueueFlags EXCEPT ![t] = NoFlags]
            /\ UNCHANGED aborted
       ELSE /\ aborted' = TRUE
            /\ UNCHANGED <<isSlotOccupied, freePoolCount, poolInfo, poolMutex, pc,
                           familyIndex, desiredQueueFlags>>
    /\ UNCHANGED <<devVars, poolCvar, waited>>

\* std::condition_variable may wake a waiter without a notification
SpuriousWake(t) ==
    /\ ~aborted
    /\ pc[t] = "lock_wait"
    /\ t \in poolCvar[familyIndex[t]]
    /\ poolCvar' = [poolCvar EXCEPT ![familyIndex[t]] = @ \ {t}]
    /\ pc' = [pc EXCEPT ![t] = "lock_mutex"]
    /\ UNCHANGED <<devVars, isSlotOccupied, freePoolCount, poolMutex,
                   desiredQueueFlags, familyIndex, poolInfo, waited, aborted>>

\* ------------------------------------------------------ unlockCommandPool
\* the lease holder calls unlockCommandPool(state, poolInfo)
UnlockCall(t) ==
    /\ ~aborted
    /\ pc[t] = "holding"
    /\ pc' = [pc EXCEPT ![t] = "unlock_mutex"]
    /\ UNCHANGED <<devVars, isSlotOccupied, freePoolCount, poolMutex, poolCvar,
                   desiredQueueFlags, familyIndex, poolInfo, waited, aborted>>

\* std::lock_guard lck(poolInfo.queue->poolMutex)
UnlockAcquire(t) ==
    /\ ~aborted
    /\ pc[t] = "unlock_mutex"
    /\ poolMutex[poolInfo[t].queue] = NoThread
    /\ poolMutex' = [poolMutex EXCEPT ![poolInfo[t].queue] = t]
    /\ pc' = [pc EXCEPT ![t] = "unlock_locked"]
    /\ UNCHANGED <<devVars, isSlotOccupied, freePoolCount, poolCvar,
                   desiredQueueFlags, familyIndex, poolInfo, waited, aborted>>

\* mutant: the assertions are compiled out
UnlockAssertsOff(info) == TRUE
\* the three assertions of unlockCommandPool
UnlockAsserts(info) ==
    /\ coreCount > info.poolIndex
    /\ isSlotOccupied[info.queue][info.poolIndex]
    /\ freePoolCount[info.queue] # coreCount

\* mutant: the return does not call poolCvar.notify_one()
UnlockBodyNoNotify(t, after) ==
    LET q == poolInfo[t].queue IN
    /\ ~aborted
    /\ pc[t] = "unlock_locked"
    /\ UnlockAsserts(poolInfo[t])
    /\ isSlotOccupied' = [isSlotOccupied EXCEPT ![q][poolInfo[t].poolIndex] = FALSE]
    /\ freePoolCount' = [freePoolCount EXCEPT ![q] = @ + 1]
    /\ poolMutex' = [poolMutex EXCEPT ![q] = NoThread]
    /\ pc' = [pc EXCEPT ![t] = after]
    /\ waited' = [waited EXCEPT ![t] = FALSE]
    /\ poolInfo' = [poolInfo EXCEPT ![t] = IF after = "idle" THEN NoPoolInfo ELSE @]
    /\ UNCHANGED <<devVars, desiredQueueFlags, familyIndex, poolCvar, aborted>>

\* the body under the lock_guard: asserts, mark free, count, notify_one, return.
\* The caller's PoolInfo goes out of scope on return (after = "idle") or is
\* kept by the caller (after = "returned").
UnlockBodyTo(t, after) ==
    LET q == poolInfo[t].queue IN
    /\ ~aborted
    /\ pc[t] = "unlock_locked"
    /\ IF UnlockAsserts(poolInfo[t])
       THEN /\ isSlotOccupied' = [isSlotOccupied EXCEPT ![q][poolInfo[t].poolIndex] = FALSE]
            /\ freePoolCount' = [freePoolCount EXCEPT ![q] = @ + 1]
            /\ poolMutex' = [poolMutex EXCEPT ![q] = NoThread]
            /\ \/ /\ poolCvar[q] = {}
                  /\ pc' = [pc EXCEPT ![t] = after]
                  /\ UNCHANGED poolCvar
               \/ \E w \in poolCvar[q] :
                     /\ poolCvar' = [poolCvar EXCEPT ![q] = @ \ {w}]
                     /\ pc' = [pc EXCEPT ![t] = after, ![w] = "lock_mutex"]
            /\ waited' = [waited EXCEPT ![t] = FALSE]
            /\ poolInfo' = [poolInfo EXCEPT ![t] = IF after = "idle" THEN NoPoolInfo ELSE @]
            /\ UNCHANGED aborted
       ELSE /\ aborted' = TRUE
            /\ UNCHANGED <<isSlotOccupied, freePoolCount, poolMutex, poolCvar, pc,
                           waited, poolInfo>>
    /\ UNCHANGED <<devVars, desiredQueueFlags, familyIndex>>

UnlockBody(t) == UnlockBodyTo(t, "idle")

\* ------------------------------------------- a PoolInfo returned twice
\* the caller keeps its PoolInfo after unlockCommandPool returned ...
UnlockBodyKeep(t) == UnlockBodyTo(t, "returned")

\* ... and passes it to unlockCommandPool again
UnlockAgain(t) ==
    /\ ~aborted
    /\ pc[t] = "returned"
    /\ pc' = [pc EXCEPT ![t] = "unlock_mutex"]
    /\ UNCHANGED <<devVars, isSlotOccupied, freePoolCount, poolMutex, poolCvar,
                   desiredQueueFlags, familyIndex, poolInfo, waited, aborted>>

\* ----------------------------------------------------- specifications
\* threads lease and return command pools of the two queues
Next ==
    \/ \E t \in Threads, flags \in DesiredFlags : LockCall(t, flags) /\ UNCHANGED outsidePool
    \/ \E t \in Threads : LockAcquire(t) /\ UNCHANGED outsidePool
    \/ \E t \in Threads : LockWait(t) /\ UNCHANGED outsidePool
    \/ \E t \in Threads : LockTake(t) /\ UNCHANGED outsidePool
    \/ \E t \in Threads : SpuriousWake(t) /\ UNCHANGED outsidePool
    \/ \E t \in Threads : UnlockCall(t) /\ UNCHANGED outsidePool
    \/ \E t \in Threads : UnlockAcquire(t) /\ UNCHANGED outsidePool
    \/ \E t \in Threads : UnlockBody(t) /\ UNCHANGED outsidePool

Init == PoolInit

Spec == Init /\ [][Next]_vars

\* one Queue under load: every caller asks for the default (graphics) queue
OneQueueNext ==
    \/ \E t \in Threads : LockCall(t, VK_QUEUE_GRAPHICS_BIT) /\ UNCHANGED outsidePool
    \/ \E t \in Threads : LockAcquire(t) /\ UNCHANGED outsidePool
    \/ \E t \in Threads : LockWait(t) /\ UNCHANGED outsidePool
    \/ \E t \in Threads : LockTake(t) /\ UNCHANGED outsidePool
    \/ \E t \in Threads : SpuriousWake(t) /\ UNCHANGED outsidePool
    \/ \E t \in Threads : UnlockCall(t) /\ UNCHANGED outsidePool
    \/ \E t \in Threads : UnlockAcquire(t) /\ UNCHANGED outsidePool
    \/ \E t \in Threads : UnlockBody(t) /\ UNCHANGED outsidePool

\* the lease pool used against its contract: a PoolInfo may be returned twice
MisuseNext ==
    \/ \E t \in Threads : LockCall(t, VK_QUEUE_GRAPHICS_BIT) /\ UNCHANGED outsidePool
    \/ \E t \in Threads : LockAcquire(t) /\ UNCHANGED outsidePool
    \/ \E t \in Threads : LockWait(t) /\ UNCHANGED outsidePool
    \/ \E t \in Threads : LockTake(t) /\ UNCHANGED outsidePool
    \/ \E t \in Threads : SpuriousWake(t) /\ UNCHANGED outsidePool
    \/ \E t \in Threads : UnlockCall(t) /\ UNCHANGED outsidePool
    \/ \E t \in Threads : UnlockAcquire(t) /\ UNCHANGED outsidePool
    \/ \E t \in Threads : UnlockBody(t) /\ UNCHANGED outsidePool
    \/ \E t \in Threads : UnlockBodyKeep(t) /\ UNCHANGED outsidePool
    \/ \E t \in Threads : UnlockAgain(t) /\ UNCHANGED outsidePool

MisuseSpec == Init /\ [][MisuseNext]_vars

\* the steps a thread takes once it is inside lockCommandPool or holds a lease
ThreadStep(t) ==
    /\ UNCHANGED outsidePool
    /\ \/ LockAcquire(t)
       \/ LockWait(t)
       \/ LockTake(t)
       \/ UnlockCall(t)
       \/ UnlockAcquire(t)
       \/ UnlockBody(t)

\* the scheduler runs every runnable thread, a free mutex is eventually handed
\* to each thread that keeps asking for it, and a lease holder returns its
\* lease; new lease requests and spurious wake-ups are not forced
Fairness == \A t \in Threads : SF_vars(ThreadStep(t))

LiveSpec == Init /\ [][OneQueueNext]_vars /\ Fairness

\* every device init accepts, one thread leasing and returning
SelectInit ==
    \E qfs \in Devices, cores \in 1..MaxCores : Usable(qfs) /\ InitOn(qfs, cores)

SelectNext ==
    \/ \E flags \in DesiredFlags : LockCall(1, flags) /\ UNCHANGED outsidePool
    \/ LockAcquire(1) /\ UNCHANGED outsidePool
    \/ LockTake(1) /\ UNCHANGED outsidePool
    \/ UnlockCall(1) /\ UNCHANGED outsidePool
    \/ UnlockAcquire(1) /\ UNCHANGED outsidePool
    \/ UnlockBody(1) /\ UNCHANGED outsidePool

SelectSpec == SelectInit /\ [][SelectNext]_vars

\* ====================================================== the frame pacer
\* the entries of FrameData::deletionQueue: the lease return startFrame
\* registers, and the cleanups the caller defers while recording
UnlockCallback(info) == [kind |-> "unlock", info |-> info, id |-> 0]
UserCallback(k) == [kind |-> "user", info |-> NoPoolInfo, id |-> k]

\* what vkAcquireNextImageKHR and vkQueuePresentKHR report
SwapchainResults == {"VK_SUCCESS", "VK_SUBOPTIMAL_KHR", "VK_ERROR_OUT_OF_DATE_KHR",
                     "VK_ERROR_DEVICE_LOST"}
Presentable(result) == result \in {"VK_SUCCESS", "VK_SUBOPTIMAL_KHR"}

\* what startFrame does with the result of vkAcquireNextImageKHR
AcquireOutcome(result) ==
    IF result = "VK_ERROR_OUT_OF_DATE_KHR" THEN "nullptr"
    ELSE IF result # "VK_SUCCESS" /\ result # "VK_SUBOPTIMAL_KHR" THEN "nullptr"
    ELSE "frame"
\* what endFrame returns for the result of vkQueuePresentKHR
PresentOutcome(result) ==
    IF result = "VK_ERROR_OUT_OF_DATE_KHR" THEN "UNKNOWN"
    ELSE IF result # "VK_SUCCESS" /\ result # "VK_SUBOPTIMAL_KHR" THEN "UNKNOWN"
    ELSE "OK"

\* startFrame entry: frameIndex = state.currentFrame, frame = state.frames[currentFrame]
StartFrame ==
    /\ ~aborted
    /\ fpc = "idle"
    /\ pc[Driver] = "idle"
    /\ frameIndex' = currentFrame
    /\ fenceWaited' = FALSE
    /\ ret' = "none"
    /\ fpc' = "sf_wait"
    /\ UNCHANGED <<devVars, poolVars, currentFrame, frames, drainIter, executed,
                   submitMutex, gpuWork, signaled>>

\* mutant: the result of vkWaitForFences is not looked at
WaitForFencesIgnored ==
    /\ ~aborted
    /\ fpc = "sf_wait"
    /\ fpc' = "sf_acquire"
    /\ UNCHANGED <<devVars, poolVars, currentFrame, frames, frameIndex, drainIter,
                   executed, fenceWaited, submitMutex, gpuWork, signaled, ret>>

\* vkWaitForFences(frame.inFlightFence, 1 s) returns VK_SUCCESS
WaitForFences ==
    /\ ~aborted
    /\ fpc = "sf_wait"
    /\ frames[frameIndex].inFlightFence \in signaled
    /\ fenceWaited' = TRUE
    /\ fpc' = "sf_acquire"
    /\ UNCHANGED <<devVars, poolVars, currentFrame, frames, frameIndex, drainIter,
                   executed, submitMutex, gpuWork, signaled, ret>>

\* the fence is not signaled within the second: assert(false)
WaitForFencesTimeout ==
    /\ ~aborted
    /\ fpc = "sf_wait"
    /\ frames[frameIndex].inFlightFence \notin signaled
    /\ aborted' = TRUE
    /\ UNCHANGED <<devVars, isSlotOccupied, freePoolCount, poolMutex, poolCvar, pc,
                   desiredQueueFlags, familyIndex, poolInfo, waited, frameVars>>

\* vkAcquireNextImageKHR, then vkResetFences, then the look at the result:
\* nullptr for an out-of-date swapchain and for any other error
AcquireNextImage(result) ==
    /\ ~aborted
    /\ fpc = "sf_acquire"
    /\ signaled' = signaled \ {frames[frameIndex].inFlightFence}
    /\ IF Presentable(result)
       THEN /\ fpc' = "sf_drain"
            /\ drainIter' = Len(frames[frameIndex].deletionQueue)
            /\ executed' = <<>>
            /\ UNCHANGED ret
       ELSE /\ fpc' = "idle"
            /\ ret' = AcquireOutcome(result)
            /\ UNCHANGED <<drainIter, executed>>
    /\ UNCHANGED <<devVars, poolVars, currentFrame, frames, frameIndex, fenceWaited,
                   submitMutex, gpuWork>>

\* mutant: the loop runs from begin() to end()
NextCallbackForward == Len(frames[frameIndex].deletionQueue) - drainIter + 1
\* the callback the reverse iterator points at
NextCallback == drainIter

\* one turn of the drain loop: (*iter)(), ++iter. The lease-return callback
\* calls unlockCommandPool with the PoolInfo it captured.
DrainStep ==
    LET cb == frames[frameIndex].deletionQueue[NextCallback] IN
    /\ ~aborted
    /\ fpc = "sf_drain"
    /\ pc[Driver] = "idle"
    /\ drainIter > 0
    /\ drainIter' = drainIter - 1
    /\ executed' = Append(executed, cb)
    /\ IF cb.kind = "unlock"
       THEN /\ poolInfo' = [poolInfo EXCEPT ![Driver] = cb.info]
            /\ pc' = [pc EXCEPT ![Driver] = "unlock_mutex"]
       ELSE UNCHANGED <<poolInfo, pc>>
    /\ UNCHANGED <<devVars, isSlotOccupied, freePoolCount, poolMutex, poolCvar,
                   desiredQueueFlags, familyIndex, waited, aborted,
                   currentFrame, frames, fpc, frameIndex, fenceWaited,
                   submitMutex, gpuWork, signaled, ret>>

\* frame.deletionQueue.clear()
DrainClear ==
    /\ ~aborted
    /\ fpc = "sf_drain"
    /\ pc[Driver] = "idle"
    /\ drainIter = 0
    /\ frames' = [frames EXCEPT ![frameIndex].deletionQueue = <<>>]
    /\ fpc' = "sf_lease"
    /\ UNCHANGED <<devVars, poolVars, currentFrame, frameIndex, drainIter,
                   executed, fenceWaited, submitMutex, gpuWork, signaled, ret>>

\* lockCommandPool(state, VK_QUEUE_GRAPHICS_BIT) inside startFrame
FrameLease ==
    /\ fpc = "sf_lease"
    /\ LockCall(Driver, VK_QUEUE_GRAPHICS_BIT)
    /\ UNCHANGED frameVars

\* the lease is stored in the frame, its return is deferred, &frame is returned
StartFrameReturn ==
    LET info == poolInfo[Driver] IN
    /\ ~aborted
    /\ fpc = "sf_lease"
    /\ pc[Driver] = "holding"
    /\ frames' = [frames EXCEPT ![frameIndex] =
                    [queue |-> info.queue,
                     commandBuffer |-> info,
                     inFlightFence |-> SlotFence(info.queue, info.poolIndex),
                     deletionQueue |-> Append(@.deletionQueue, UnlockCallback(info))]]
    /\ pc' = [pc EXCEPT ![Driver] = "idle"]
    /\ poolInfo' = [poolInfo EXCEPT ![Driver] = NoPoolInfo]
    /\ waited' = [waited EXCEPT ![Driver] = FALSE]
    /\ executed' = <<>>
    /\ ret' = "frame"
    /\ fpc' = "recording"
    /\ UNCHANGED <<devVars, isSlotOccupied, freePoolCount, poolMutex, poolCvar,
                   desiredQueueFlags, familyIndex, aborted,
                   currentFrame, frameIndex, drainIter, fenceWaited,
                   submitMutex, gpuWork, signaled>>

\* the caller defers a cleanup on the frame it is recording; the cleanups of
\* one cycle are labelled 1, 2, ... in the order they are registered
UserCallbacksOf(dq) == {dq[k].id : k \in {j \in DOMAIN dq : dq[j].kind = "user"}}
RegisterCleanup(k) ==
    /\ ~aborted
    /\ fpc = "recording"
    /\ k = Cardinality(UserCallbacksOf(frames[frameIndex].deletionQueue)) + 1
    /\ frames' = [frames EXCEPT ![frameIndex].deletionQueue = Append(@, UserCallback(k))]
    /\ UNCHANGED <<devVars, poolVars, currentFrame, fpc, frameIndex, drainIter,
                   executed, fenceWaited, submitMutex, gpuWork, signaled, ret>>

\* mutant: the index wraps at the frame count of the older renderer
AdvanceEarlyWrap == (currentFrame + 1) % (MAX_IN_FLIGHT_FRAMES - 1)
\* state.currentFrame = (state.currentFrame + 1) % MAX_IN_FLIGHT_FRAMES
Advance == (currentFrame + 1) % MAX_IN_FLIGHT_FRAMES

\* endFrame entry
EndFrame ==
    /\ ~aborted
    /\ fpc = "recording"
    /\ currentFrame' = Advance
    /\ ret' = "none"
    /\ fpc' = "ef_mutex"
    /\ UNCHANGED <<devVars, poolVars, frames, frameIndex, drainIter, executed,
                   fenceWaited, submitMutex, gpuWork, signaled>>

\* mutant: endFrame submits without taking submitMutex
EndFrameLockSkipped ==
    /\ ~aborted
    /\ fpc = "ef_mutex"
    /\ fpc' = "ef_locked"
    /\ UNCHANGED <<devVars, poolVars, currentFrame, frames, frameIndex, drainIter,
                   executed, fenceWaited, submitMutex, gpuWork, signaled, ret>>

\* std::lock_guard lck(frame.queue->submitMutex)
EndFrameLock ==
    LET q == frames[frameIndex].queue IN
    /\ ~aborted
    /\ fpc = "ef_mutex"
    /\ submitMutex[q] = NoThread
    /\ submitMutex' = [submitMutex EXCEPT ![q] = Driver]
    /\ fpc' = "ef_locked"
    /\ UNCHANGED <<devVars, poolVars, currentFrame, frames, frameIndex, drainIter,
                   executed, fenceWaited, gpuWork, signaled, ret>>

\* vkQueueSubmit with frame.inFlightFence, vkQueuePresentKHR, the return code;
\* the lock_guard lets go of submitMutex on every return
EndFrameSubmit(submitted, result) ==
    LET frame == frames[frameIndex]
        cb == frame.commandBuffer IN
    /\ ~aborted
    /\ fpc = "ef_locked"
    /\ IF submitted
       THEN /\ gpuWork' = [gpuWork EXCEPT ![cb.queue][cb.poolIndex] = frame.inFlightFence]
            /\ ret' = PresentOutcome(result)
       ELSE /\ ret' = "UNKNOWN"
            /\ UNCHANGED gpuWork
    /\ submitMutex' = [submitMutex EXCEPT ![frame.queue] = NoThread]
    /\ fpc' = "idle"
    /\ UNCHANGED <<devVars, poolVars, currentFrame, frames, frameIndex, drainIter,
                   executed, fenceWaited, signaled>>

\* the GPU finishes the work submitted from a command buffer and signals its fence
GpuComplete(q, s) ==
    /\ ~aborted
    /\ gpuWork[q][s] # NoFence
    /\ signaled' = signaled \cup {gpuWork[q][s]}
    /\ gpuWork' = [gpuWork EXCEPT ![q][s] = NoFence]
    /\ UNCHANGED <<devVars, poolVars, currentFrame, frames, fpc, frameIndex, drainIter,
                   executed, fenceWaited, submitMutex, ret>>

\* ================================= the upload helpers and immediateSubmit
\* createImage leases from the graphics queue, createCubemap and createMesh
\* from the transfer queue
UploadFlags == {VK_QUEUE_GRAPHICS_BIT, VK_QUEUE_TRANSFER_BIT}
UploadLease(t, flags) ==
    /\ LockCall(t, flags)
    /\ UNCHANGED frameVars

\* immediateSubmit: vkCreateFence, vkBeginCommandBuffer, fn(cmd), vkEndCommandBuffer.
\* Each of them may fail; then immediateSubmit returns early, the helper returns
\* and its defer block calls unlockCommandPool(state, poolInfo).
ImmediateRecord(t, ok) ==
    /\ ~aborted
    /\ pc[t] = "holding"
    /\ pc' = [pc EXCEPT ![t] = IF ok THEN "im_mutex" ELSE "unlock_mutex"]
    /\ UNCHANGED <<devVars, isSlotOccupied, freePoolCount, poolMutex, poolCvar,
                   desiredQueueFlags, familyIndex, poolInfo, waited, aborted, frameVars>>

\* std::lock_guard lck(queueMutex)
ImmediateLock(t) ==
    LET q == poolInfo[t].queue IN
    /\ ~aborted
    /\ pc[t] = "im_mutex"
    /\ submitMutex[q] = NoThread
    /\ submitMutex' = [submitMutex EXCEPT ![q] = t]
    /\ pc' = [pc EXCEPT ![t] = "im_locked"]
    /\ UNCHANGED <<devVars, isSlotOccupied, freePoolCount, poolMutex, poolCvar,
                   desiredQueueFlags, familyIndex, poolInfo, waited, aborted,
                   currentFrame, frames, fpc, frameIndex, drainIter, executed,
                   fenceWaited, gpuWork, signaled, ret>>

\* vkQueueSubmit with the fence of this call, end of the lock_guard's block;
\* a failed submit returns early, to the helper's deferred unlockCommandPool
ImmediateSubmit(t, submitted) ==
    LET info == poolInfo[t] IN
    /\ ~aborted
    /\ pc[t] = "im_locked"
    /\ submitMutex' = [submitMutex EXCEPT ![info.queue] = NoThread]
    /\ IF submitted
       THEN /\ gpuWork' = [gpuWork EXCEPT ![info.queue][info.poolIndex] = ImmediateFence(t)]
            /\ pc' = [pc EXCEPT ![t] = "im_wait"]
       ELSE /\ pc' = [pc EXCEPT ![t] = "unlock_mutex"]
            /\ UNCHANGED gpuWork
    /\ UNCHANGED <<devVars, isSlotOccupied, freePoolCount, poolMutex, poolCvar,
                   desiredQueueFlags, familyIndex, poolInfo, waited, aborted,
                   currentFrame, frames, fpc, frameIndex, drainIter, executed,
                   fenceWaited, signaled, ret>>

\* mutant: immediateSubmit returns without waiting for its fence
ImmediateFenceSkipped(t) == TRUE
\* vkWaitForFences(fence, UINT64_MAX) returns once the fence is signaled
ImmediateFenceSignaled(t) == ImmediateFence(t) \in signaled

\* the wait, vkDestroyFence, the return, and the helper's deferred
\* unlockCommandPool(state, poolInfo)
ImmediateWait(t) ==
    /\ ~aborted
    /\ pc[t] = "im_wait"
    /\ ImmediateFenceSignaled(t)
    /\ signaled' = signaled \ {ImmediateFence(t)}
    /\ pc' = [pc EXCEPT ![t] = "unlock_mutex"]
    /\ UNCHANGED <<devVars, isSlotOccupied, freePoolCount, poolMutex, poolCvar,
                   desiredQueueFlags, familyIndex, poolInfo, waited, aborted,
                   currentFrame, frames, fpc, frameIndex, drainIter, executed,
                   fenceWaited, submitMutex, gpuWork, ret>>

\* the steps of lockCommandPool and unlockCommandPool a thread takes inside
\* startFrame or inside an upload helper
FrameThreads == {Driver} \cup Uploaders
PoolStep(t) ==
    /\ \/ LockAcquire(t)
       \/ LockWait(t)
       \/ LockTake(t)
       \/ SpuriousWake(t)
       \/ UnlockAcquire(t)
       \/ UnlockBody(t)
    /\ UNCHANGED frameVars

FrameInit == \E cores \in 1..MaxFrameCores : InitOn(TwoFamilyDevice, cores)

FrameNext ==
    \/ StartFrame /\ UNCHANGED outsideFrame
    \/ WaitForFences /\ UNCHANGED outsideFrame
    \/ WaitForFencesTimeout /\ UNCHANGED outsideFrame
    \/ \E result \in SwapchainResults : AcquireNextImage(result) /\ UNCHANGED outsideFrame
    \/ DrainStep /\ UNCHANGED outsideFrame
    \/ DrainClear /\ UNCHANGED outsideFrame
    \/ FrameLease /\ UNCHANGED outsideFrame
    \/ StartFrameReturn /\ UNCHANGED outsideFrame
    \/ \E k \in CleanupIds : RegisterCleanup(k) /\ UNCHANGED outsideFrame
    \/ EndFrame /\ UNCHANGED outsideFrame
    \/ EndFrameLock /\ UNCHANGED outsideFrame
    \/ \E submitted \in BOOLEAN, result \in SwapchainResults :
          EndFrameSubmit(submitted, result) /\ UNCHANGED outsideFrame
    \/ \E q \in QueueIds, s \in Slots : GpuComplete(q, s) /\ UNCHANGED outsideFrame
    \/ \E t \in Uploaders, flags \in UploadFlags : UploadLease(t, flags) /\ UNCHANGED outsideFrame
    \/ \E t \in Uploaders, ok \in BOOLEAN : ImmediateRecord(t, ok) /\ UNCHANGED outsideFrame
    \/ \E t \in Uploaders : ImmediateLock(t) /\ UNCHANGED outsideFrame
    \/ \E t \in Uploaders, submitted \in BOOLEAN : ImmediateSubmit(t, submitted) /\ UNCHANGED outsideFrame
    \/ \E t \in Uploaders : ImmediateWait(t) /\ UNCHANGED outsideFrame
    \/ \E t \in FrameThreads : PoolStep(t) /\ UNCHANGED outsideFrame

FrameSpec == FrameInit /\ [][FrameNext]_vars

\* ------------------- the frame loop alone, with the VkResult behind each return
\* an error vkQueueSubmit reports
SubmitError == "VK_ERROR_DEVICE_LOST"

OutcomeNext ==
    \/ StartFrame /\ UNCHANGED outsideFrame
    \/ WaitForFences /\ UNCHANGED outsideFrame
    \/ WaitForFencesTimeout /\ UNCHANGED outsideFrame
    \/ DrainStep /\ UNCHANGED outsideFrame
    \/ DrainClear /\ UNCHANGED outsideFrame
    \/ FrameLease /\ UNCHANGED outsideFrame
    \/ StartFrameReturn /\ UNCHANGED outsideFrame
    \/ (\E k \in CleanupIds : RegisterCleanup(k)) /\ UNCHANGED outsideFrame
    \/ EndFrame /\ UNCHANGED outsideFrame
    \/ EndFrameLock /\ UNCHANGED outsideFrame
    \/ (\E q \in QueueIds, s \in Slots : GpuComplete(q, s)) /\ UNCHANGED outsideFrame
    \/ PoolStep(Driver) /\ UNCHANGED outsideFrame
    \/ \E result \in SwapchainResults :
          AcquireNextImage(result) /\ lastResult' = result /\ UNCHANGED outsideOutcome
    \/ \E submitted \in BOOLEAN, result \in SwapchainResults :
          /\ EndFrameSubmit(submitted, result)
          /\ lastResult' = IF submitted THEN result ELSE SubmitError
          /\ UNCHANGED outsideOutcome

OutcomeSpec == FrameInit /\ [][OutcomeNext]_vars

\* ---- the frame loop alone, kept running: the thread that drives it is
\* scheduled whenever it can take a step, and the GPU finishes what was submitted
GpuProgress == (\E q \in QueueIds, s \in Slots : GpuComplete(q, s)) /\ UNCHANGED outsideFrame
PacerFairness == WF_vars(OutcomeNext) /\ WF_vars(GpuProgress)

PacerLiveSpec == FrameInit /\ [][OutcomeNext]_vars /\ PacerFairness

\* ===================================== the keys of the caches: == and hash
\* the VkDescriptorType values the hash functor and the layout builder use
VK_DESCRIPTOR_TYPE_SAMPLER == 0
VK_DESCRIPTOR_TYPE_COMBINED_IMAGE_SAMPLER == 1
VK_DESCRIPTOR_TYPE_SAMPLED_IMAGE == 2
VK_DESCRIPTOR_TYPE_STORAGE_IMAGE == 3
VK_DESCRIPTOR_TYPE_UNIFORM_BUFFER == 6
VK_DESCRIPTOR_TYPE_STORAGE_BUFFER == 7
\* std::numeric_limits<u16>::max()
U16_MAX == 65535
\* VkShaderStageFlags: VK_SHADER_STAGE_VERTEX_BIT, VK_SHADER_STAGE_FRAGMENT_BIT
VK_SHADER_STAGE_VERTEX_BIT == 1
VK_SHADER_STAGE_FRAGMENT_BIT == 16

\* size_t arithmetic, on the low HashBits bits
RECURSIVE Pow2(_)
Pow2(n) == IF n = 0 THEN 1 ELSE 2 * Pow2(n - 1)
RECURSIVE BitXor(_, _)
BitXor(x, y) ==
    IF x = 0 THEN y
    ELSE IF y = 0 THEN x
    ELSE (((x % 2) + (y % 2)) % 2) + 2 * BitXor(x \div 2, y \div 2)
ShiftLeft(x) == (2 * x) % Pow2(HashBits)
\* std::hash of an integer or of a pointer: the value itself
StdHash(x) == x % Pow2(HashBits)
\* retval = (retval << 1) ^ std::hash<...>()(x)
HashCombine(retval, x) == BitXor(ShiftLeft(retval), StdHash(x))

\* ---- kvk::Descriptor and kvk::DescriptorSet
\* A Descriptor is a union and a kind. word0 is the first handle of the union
\* (image view, buffer or sampler), word1 what follows it: imageType for an
\* IMAGE, bufferType for a BUFFER.
DescriptorKinds == {"IMAGE_SAMPLER", "IMAGE", "BUFFER", "SAMPLER", "IMAGES"}
ImageTypes == {VK_DESCRIPTOR_TYPE_SAMPLED_IMAGE, VK_DESCRIPTOR_TYPE_STORAGE_IMAGE}
BufferTypes == {VK_DESCRIPTOR_TYPE_UNIFORM_BUFFER, VK_DESCRIPTOR_TYPE_STORAGE_BUFFER}
Handles == {0, 1}
DescriptorShapes ==
    [type : {"IMAGE"}, word1 : ImageTypes] \cup
    [type : {"BUFFER"}, word1 : BufferTypes] \cup
    [type : DescriptorKinds \ {"IMAGE", "BUFFER"}, word1 : {0}]
WithHandle(shape, h) == [type |-> shape.type, word0 |-> h, word1 |-> shape.word1]
\* the descriptions: every entry of the array carries a value, also those
\* beyond count; the handles of one description are all h
DescriptorSets ==
    {[handle |-> h,
      descriptors |-> [i \in 1..MaxBindings |-> WithHandle(shapes[i], h)],
      shaderStage |-> stage,
      count |-> n] :
        h \in Handles,
        shapes \in [1..MaxBindings -> DescriptorShapes],
        stage \in {VK_SHADER_STAGE_VERTEX_BIT, VK_SHADER_STAGE_FRAGMENT_BIT},
        n \in 0..MaxBindings}

\* the loop of DescriptorSet::operator==, from entry i on
RECURSIVE DescriptorsEqualFrom(_, _, _)
DescriptorsEqualFrom(this, other, i) ==
    IF i > this.count THEN TRUE
    ELSE IF this.descriptors[i].type # other.descriptors[i].type THEN FALSE
    ELSE IF /\ this.descriptors[i].type = "IMAGE"
            /\ this.descriptors[i].word1 # other.descriptors[i].word1 THEN FALSE
    ELSE IF /\ this.descriptors[i].type = "BUFFER"
            /\ this.descriptors[i].word1 # other.descriptors[i].word1 THEN FALSE
    ELSE DescriptorsEqualFrom(this, other, i + 1)

\* mutant: the set handle is compared as well
DescriptorSetEqualsHandle(this, other) ==
    IF this.handle # other.handle THEN FALSE
    ELSE IF this.shaderStage # other.shaderStage THEN FALSE
    ELSE IF this.count # other.count THEN FALSE
    ELSE DescriptorsEqualFrom(this, other, 1)
\* DescriptorSet::operator==
DescriptorSetEquals(this, other) ==
    IF this.shaderStage # other.shaderStage THEN FALSE
    ELSE IF this.count # other.count THEN FALSE
    ELSE DescriptorsEqualFrom(this, other, 1)

\* one turn of the loop of DescriptorSetLayoutHash
HashDescriptor(retval, dsc) ==
    CASE dsc.type = "IMAGE_SAMPLER" ->
            HashCombine(retval, VK_DESCRIPTOR_TYPE_COMBINED_IMAGE_SAMPLER)
      [] dsc.type = "IMAGE" -> HashCombine(retval, dsc.word1)
      [] dsc.type = "SAMPLER" -> HashCombine(retval, VK_DESCRIPTOR_TYPE_SAMPLER)
      [] dsc.type = "BUFFER" -> HashCombine(retval, dsc.word1)
      [] dsc.type = "IMAGES" ->
            HashCombine(HashCombine(retval, VK_DESCRIPTOR_TYPE_SAMPLED_IMAGE), U16_MAX)
RECURSIVE HashDescriptorsFrom(_, _, _)
HashDescriptorsFrom(set, i, retval) ==
    IF i > set.count THEN retval
    ELSE HashDescriptorsFrom(set, i + 1, HashDescriptor(retval, set.descriptors[i]))
\* DescriptorSetLayoutHash::operator()
DescriptorSetLayoutHash(set) == HashDescriptorsFrom(set, 1, StdHash(set.shaderStage))

\* ---- kvk::PipelineLayoutInfo
\* VkPushConstantRange is three 32-bit words without padding, so memcmp
\* compares stageFlags, offset and size
PushConstantRanges ==
    [stageFlags : {VK_SHADER_STAGE_VERTEX_BIT, VK_SHADER_STAGE_FRAGMENT_BIT},
     offset : {0},
     size : {4, 8}]
LayoutHandles == {1, 2}
SeqsUpTo(S, n) == UNION {[1..k -> S] : k \in 0..n}
\* data is where the two vectors keep their elements
PipelineLayoutInfos ==
    [pushConstantRanges : SeqsUpTo(PushConstantRanges, MaxRanges),
     layouts : SeqsUpTo(LayoutHandles, MaxLayouts),
     data : Handles]

Memcmp(x, y) ==
    IF x.stageFlags = y.stageFlags /\ x.offset = y.offset /\ x.size = y.size THEN 0 ELSE 1
RECURSIVE RangesEqualFrom(_, _, _)
RangesEqualFrom(this, other, i) ==
    IF i > Len(this.pushConstantRanges) THEN TRUE
    ELSE IF Memcmp(this.pushConstantRanges[i], other.pushConstantRanges[i]) # 0 THEN FALSE
    ELSE RangesEqualFrom(this, other, i + 1)
RECURSIVE LayoutsEqualFrom(_, _, _)
LayoutsEqualFrom(this, other, i) ==
    IF i > Len(this.layouts) THEN TRUE
    ELSE IF this.layouts[i] # other.layouts[i] THEN FALSE
    ELSE LayoutsEqualFrom(this, other, i + 1)

\* mutant: the size of the layouts vector is not compared
PipelineLayoutInfoEqualsNoSize(this, other) ==
    IF Len(this.pushConstantRanges) # Len(other.pushConstantRanges) THEN FALSE
    ELSE IF Len(this.layouts) > Len(other.layouts) THEN FALSE
    ELSE IF ~RangesEqualFrom(this, other, 1) THEN FALSE
    ELSE LayoutsEqualFrom(this, other, 1)
\* PipelineLayoutInfo::operator==
PipelineLayoutInfoEquals(this, other) ==
    IF Len(this.pushConstantRanges) # Len(other.pushConstantRanges) THEN FALSE
    ELSE IF Len(this.layouts) # Len(other.layouts) THEN FALSE
    ELSE IF ~RangesEqualFrom(this, other, 1) THEN FALSE
    ELSE LayoutsEqualFrom(this, other, 1)

RECURSIVE HashLayoutsFrom(_, _, _)
HashLayoutsFrom(info, i, retval) ==
    IF i > Len(info.layouts) THEN retval
    ELSE HashLayoutsFrom(info, i + 1, HashCombine(retval, info.layouts[i]))
RECURSIVE HashRangesFrom(_, _, _)
HashRangesFrom(info, i, retval) ==
    IF i > Len(info.pushConstantRanges) THEN retval
    ELSE HashRangesFrom(info, i + 1,
            HashCombine(HashCombine(HashCombine(retval,
                info.pushConstantRanges[i].size),
                info.pushConstantRanges[i].offset),
                info.pushConstantRanges[i].stageFlags))
\* PipelineLayoutHash::operator()
PipelineLayoutHash(info) == HashRangesFrom(info, 1, HashLayoutsFrom(info, 1, 0))

\* ---- the calls
CompareDescriptorSets ==
    /\ vpc = "given"
    /\ equalResult' = DescriptorSetEquals(operandA, operandB)
    /\ hashA' = DescriptorSetLayoutHash(operandA)
    /\ hashB' = DescriptorSetLayoutHash(operandB)
    /\ vpc' = "compared"
    /\ UNCHANGED <<operandA, operandB, outsideValues>>

ComparePipelineLayoutInfos ==
    /\ vpc = "given"
    /\ equalResult' = PipelineLayoutInfoEquals(operandA, operandB)
    /\ hashA' = PipelineLayoutHash(operandA)
    /\ hashB' = PipelineLayoutHash(operandB)
    /\ vpc' = "compared"
    /\ UNCHANGED <<operandA, operandB, outsideValues>>

GivenValues(S) ==
    /\ RendererInit(TwoFamilyDevice, 1)
    /\ OthersIdle
    /\ operandA \in S
    /\ operandB \in S
    /\ equalResult = FALSE
    /\ hashA = 0
    /\ hashB = 0
    /\ vpc = "given"

DescriptorSetSpec == GivenValues(DescriptorSets) /\ [][CompareDescriptorSets]_vars
PipelineLayoutInfoSpec ==
    GivenValues(PipelineLayoutInfos) /\ [][ComparePipelineLayoutInfos]_vars

\* ======================================================== the caches
\* Callers of the get-or-create routines of kvk::Cache. Each makes up to
\* MaxCalls calls; a call is one of shaderModuleFromCache (one path),
\* descriptorSetLayoutFromCache, the pipeline-layout block of
\* PipelineBuilder::build, and DescriptorSetBuilder::build.

\* the descriptions the callers pass: two instances of one shape that carry
\* different handles, and one of another shape
ImageSet(h) ==
    [handle |-> h,
     descriptors |-> [i \in 1..MaxBindings |->
                        [type |-> "IMAGE", word0 |-> h,
                         word1 |-> VK_DESCRIPTOR_TYPE_SAMPLED_IMAGE]],
     shaderStage |-> VK_SHADER_STAGE_FRAGMENT_BIT,
     count |-> 1]
BufferSet ==
    [handle |-> VK_NULL_HANDLE,
     descriptors |-> [i \in 1..MaxBindings |->
                        [type |-> "BUFFER", word0 |-> 1,
                         word1 |-> VK_DESCRIPTOR_TYPE_UNIFORM_BUFFER]],
     shaderStage |-> VK_SHADER_STAGE_VERTEX_BIT,
     count |-> 1]
LayoutKeys == {ImageSet(0), ImageSet(1), BufferSet}
\* the PipelineLayoutInfo a build() call fills in
BuildInfo == [pushConstantRanges |-> <<>>, layouts |-> <<1>>, data |-> 0]

\* unordered_map<DescriptorSet, VkDescriptorSetLayout, DescriptorSetLayoutHash>:
\* the entries are found by hash and operator==
\* mutant: the key is compared field by field, handles included
LayoutEntriesExact(map, set) ==
    {e \in map : e.key = set}
LayoutEntries(map, set) ==
    {e \in map : /\ DescriptorSetLayoutHash(e.key) = DescriptorSetLayoutHash(set)
                 /\ DescriptorSetEquals(e.key, set)}
PipelineEntries(map, info) ==
    {e \in map : /\ PipelineLayoutHash(e.key) = PipelineLayoutHash(info)
                 /\ PipelineLayoutInfoEquals(e.key, info)}
\* map[key]: the entry, value-initialised and inserted when there is none
Subscript(map, found, key) ==
    IF found = {} THEN map \cup {[key |-> key, value |-> VK_NULL_HANDLE]} ELSE map
Store(map, found, value) ==
    (map \ found) \cup {[key |-> e.key, value |-> value] : e \in found}

\* a call returns: the lock_guard / unique_lock destructors release what t holds
Release(t) == [m \in CacheMutexes |-> IF cacheMutex[m] = t THEN NoThread ELSE cacheMutex[m]]
Return(t, code, value) ==
    /\ cpc' = [cpc EXCEPT ![t] = "idle"]
    /\ cacheMutex' = Release(t)
    /\ returned' = returned \cup
            {[caller |-> t, nth |-> calls[t], op |-> call[t].op, name |-> call[t].name,
              set |-> call[t].set, push |-> call[t].push, rc |-> code, value |-> value]}
    /\ UNCHANGED <<call, calls>>

\* a call begins: c is the routine and what it is called with, b the
\* DescriptorSetBuilder it is called on
Begin(t, c, b, label) ==
    /\ cpc[t] = "idle"
    /\ calls[t] < MaxCalls
    /\ calls' = [calls EXCEPT ![t] = @ + 1]
    /\ call' = [call EXCEPT ![t] = c]
    /\ cpc' = [cpc EXCEPT ![t] = label]
    /\ module' = [module EXCEPT ![t] = VK_NULL_HANDLE]
    /\ output' = [output EXCEPT ![t] = VK_NULL_HANDLE]
    /\ builder' = [builder EXCEPT ![t] = b]
    /\ updates' = [updates EXCEPT ![t] = NoUpdate]
    /\ UNCHANGED <<cacheMutex, shaderModules, descriptorLayouts, pipelineLayouts,
                   descriptors, perFrameDescriptors, created, destroyed, destroyCalls,
                   createCalls, returned>>

\* the calls that pass no isPushDescriptor, or pass false
Enter(t, op, name, set, b, label) ==
    Begin(t, [op |-> op, name |-> name, set |-> set, push |-> FALSE], b, label)

\* std::mutex::lock
LockMutex(t, m, from, to) ==
    /\ cpc[t] = from
    /\ cacheMutex[m] = NoThread
    /\ cacheMutex' = [cacheMutex EXCEPT ![m] = t]
    /\ cpc' = [cpc EXCEPT ![t] = to]
    /\ UNCHANGED <<call, calls, module, output, shaderModules, descriptorLayouts,
                   pipelineLayouts, descriptors, perFrameDescriptors, builder, updates, created, destroyed, destroyCalls,
                   createCalls, returned>>

\* ---- shaderModuleFromCache
ShaderCall(t) == Enter(t, "shaderModuleFromCache", NoName, NoKey, NoBuilder, "sm_lock")
ShaderLock(t) == LockMutex(t, "shaderModuleMutex", "sm_lock", "sm_find")

\* mutant: a miss keeps shaderModuleMutex through the file I/O
ShaderFindKeepsLock(t) ==
    /\ cpc[t] = "sm_find"
    /\ IF shaderModules = VK_NULL_HANDLE
       THEN /\ cpc' = [cpc EXCEPT ![t] = "sm_open"]
            /\ UNCHANGED <<cacheMutex, output, returned, call, calls>>
       ELSE /\ output' = [output EXCEPT ![t] = shaderModules]
            /\ Return(t, "OK", shaderModules)
    /\ UNCHANGED <<module, shaderModules, descriptorLayouts, pipelineLayouts,
                   descriptors, perFrameDescriptors, builder, updates, created, destroyed, destroyCalls, createCalls>>

\* find(path); a miss unlocks and goes on to build
ShaderFind(t) ==
    /\ cpc[t] = "sm_find"
    /\ IF shaderModules = VK_NULL_HANDLE
       THEN /\ cacheMutex' = [cacheMutex EXCEPT !["shaderModuleMutex"] = NoThread]
            /\ cpc' = [cpc EXCEPT ![t] = "sm_open"]
            /\ UNCHANGED <<output, returned, call, calls>>
       ELSE /\ output' = [output EXCEPT ![t] = shaderModules]
            /\ Return(t, "OK", shaderModules)
    /\ UNCHANGED <<module, shaderModules, descriptorLayouts, pipelineLayouts,
                   descriptors, perFrameDescriptors, builder, updates, created, destroyed, destroyCalls, createCalls>>

\* std::ifstream on the path, and the read
ShaderOpen(t, isOpen) ==
    /\ cpc[t] = "sm_open"
    /\ IF isOpen
       THEN /\ cpc' = [cpc EXCEPT ![t] = "sm_create"]
            /\ UNCHANGED <<cacheMutex, returned, call, calls>>
       ELSE Return(t, "FILE_NOT_FOUND", VK_NULL_HANDLE)
    /\ UNCHANGED <<module, output, shaderModules, descriptorLayouts, pipelineLayouts,
                   descriptors, perFrameDescriptors, builder, updates, created, destroyed, destroyCalls, createCalls>>

\* createShaderModuleFromMemory and spvReflectCreateShaderModule
ShaderCreate(t, success) ==
    /\ cpc[t] = "sm_create"
    /\ IF success
       THEN /\ created' = [created EXCEPT !["module"] = @ + 1]
            /\ module' = [module EXCEPT ![t] = created["module"] + 1]
            /\ cpc' = [cpc EXCEPT ![t] = "sm_relock"]
            /\ UNCHANGED <<cacheMutex, returned, call, calls>>
       ELSE /\ Return(t, "UNKNOWN", VK_NULL_HANDLE)
            /\ UNCHANGED <<created, module>>
    /\ UNCHANGED <<output, shaderModules, descriptorLayouts, pipelineLayouts,
                   descriptors, perFrameDescriptors, builder, updates, destroyed, destroyCalls, createCalls>>

ShaderRelock(t) == LockMutex(t, "shaderModuleMutex", "sm_relock", "sm_recheck")

\* mutant: the second find is left out, the built module is always stored
ShaderRecheckBlind(t) ==
    /\ cpc[t] = "sm_recheck"
    /\ shaderModules' = module[t]
    /\ output' = [output EXCEPT ![t] = module[t]]
    /\ Return(t, "OK", module[t])
    /\ UNCHANGED <<module, descriptorLayouts, pipelineLayouts, descriptors, perFrameDescriptors, builder, updates, created,
                   destroyed, destroyCalls, createCalls>>
\* the second find(path) under the lock: store the module, or take the winner's
ShaderRecheck(t) ==
    /\ cpc[t] = "sm_recheck"
    /\ IF shaderModules = VK_NULL_HANDLE
       THEN /\ shaderModules' = module[t]
            /\ output' = [output EXCEPT ![t] = module[t]]
            /\ Return(t, "OK", module[t])
       ELSE /\ output' = [output EXCEPT ![t] = shaderModules]
            /\ cacheMutex' = [cacheMutex EXCEPT !["shaderModuleMutex"] = NoThread]
            /\ cpc' = [cpc EXCEPT ![t] = "sm_destroy"]
            /\ UNCHANGED <<shaderModules, returned, call, calls>>
    /\ UNCHANGED <<module, descriptorLayouts, pipelineLayouts, descriptors, perFrameDescriptors, builder, updates, created,
                   destroyed, destroyCalls, createCalls>>

\* spvReflectDestroyShaderModule and vkDestroyShaderModule on the local module
ShaderDestroy(t) ==
    /\ cpc[t] = "sm_destroy"
    /\ destroyed' = destroyed \cup {module[t]}
    /\ destroyCalls' = destroyCalls + 1
    /\ Return(t, "OK", output[t])
    /\ UNCHANGED <<module, output, shaderModules, descriptorLayouts, pipelineLayouts,
                   descriptors, perFrameDescriptors, builder, updates, created, createCalls>>

\* ---- descriptorSetLayoutFromCache, called by a pipeline build or, with
\* descriptorMutex held, by DescriptorSetBuilder::buildInternal
LayoutCall(t, set, isPushDescriptor) ==
    Begin(t, [op |-> "descriptorSetLayoutFromCache", name |-> NoName, set |-> set,
              push |-> isPushDescriptor], NoBuilder, "dl_lock")
LayoutLock(t) == LockMutex(t, "descriptorLayoutMutex", "dl_lock", "dl_find")

\* the two routines that run buildInternal
BuildOps == {"DescriptorSetBuilder::build", "DescriptorSetBuilder::buildPerFrame"}
\* where the layout goes: to the caller, or back into buildInternal
LayoutReturn(t, layout) ==
    IF call[t].op \in BuildOps
    THEN /\ cpc' = [cpc EXCEPT ![t] = "ds_alloc"]
         /\ cacheMutex' = [cacheMutex EXCEPT !["descriptorLayoutMutex"] = NoThread]
         /\ UNCHANGED <<returned, call, calls>>
    ELSE Return(t, "OK", layout)

\* mutant: the entry is used only by a request for the variant it was created as
LayoutFindByVariant(t) ==
    /\ cpc[t] = "dl_find"
    /\ LET found == LayoutEntries(descriptorLayouts, call[t].set)
           map == Subscript(descriptorLayouts, found, call[t].set)
           layout == (CHOOSE e \in LayoutEntries(map, call[t].set) : TRUE).value
       IN /\ descriptorLayouts' = map
          /\ IF layout = VK_NULL_HANDLE
                \/ \E c \in createCalls : c.layout = layout /\ c.push # call[t].push
             THEN /\ cpc' = [cpc EXCEPT ![t] = "dl_build"]
                  /\ UNCHANGED <<cacheMutex, returned, call, calls, output>>
             ELSE /\ output' = [output EXCEPT ![t] = layout]
                  /\ LayoutReturn(t, layout)
    /\ UNCHANGED <<module, shaderModules, pipelineLayouts, descriptors, perFrameDescriptors, builder, updates, created,
                   destroyed, destroyCalls, createCalls>>

\* VkDescriptorSetLayout& layout = cache.descriptorLayouts[set]
LayoutFind(t) ==
    /\ cpc[t] = "dl_find"
    /\ LET found == LayoutEntries(descriptorLayouts, call[t].set)
           map == Subscript(descriptorLayouts, found, call[t].set)
           layout == (CHOOSE e \in LayoutEntries(map, call[t].set) : TRUE).value
       IN /\ descriptorLayouts' = map
          /\ IF layout = VK_NULL_HANDLE
             THEN /\ cpc' = [cpc EXCEPT ![t] = "dl_build"]
                  /\ UNCHANGED <<cacheMutex, returned, call, calls, output>>
             ELSE /\ output' = [output EXCEPT ![t] = layout]
                  /\ LayoutReturn(t, layout)
    /\ UNCHANGED <<module, shaderModules, pipelineLayouts, descriptors, perFrameDescriptors, builder, updates, created,
                   destroyed, destroyCalls, createCalls>>

\* builder.buildPush if isPushDescriptor, else builder.build: the flag chooses
\* the variant created; the bool returned is not looked at
LayoutBuild(t, success) ==
    /\ cpc[t] = "dl_build"
    /\ LET found == LayoutEntries(descriptorLayouts, call[t].set)
           layout == IF success THEN created["layout"] + 1 ELSE VK_NULL_HANDLE
       IN /\ created' = [created EXCEPT !["layout"] = IF success THEN @ + 1 ELSE @]
          /\ createCalls' = createCalls \cup
                {[caller |-> t, nth |-> calls[t], set |-> call[t].set, push |-> call[t].push,
                  layout |-> layout]}
          /\ descriptorLayouts' = Store(descriptorLayouts, found, layout)
          /\ output' = [output EXCEPT ![t] = layout]
          /\ LayoutReturn(t, layout)
    /\ UNCHANGED <<module, shaderModules, pipelineLayouts, descriptors, perFrameDescriptors, builder, updates, destroyed,
                   destroyCalls>>

\* ---- the pipeline-layout block of PipelineBuilder::build
PipelineCall(t) == Enter(t, "PipelineBuilder::build", NoName, NoKey, NoBuilder, "pl_lock")
PipelineLock(t) == LockMutex(t, "pipelineLayoutMutex", "pl_lock", "pl_find")

\* VkPipelineLayout& layout = cache.pipelineLayouts[info]
PipelineFind(t) ==
    /\ cpc[t] = "pl_find"
    /\ LET found == PipelineEntries(pipelineLayouts, BuildInfo)
           map == Subscript(pipelineLayouts, found, BuildInfo)
           layout == (CHOOSE e \in PipelineEntries(map, BuildInfo) : TRUE).value
       IN /\ pipelineLayouts' = map
          /\ IF layout = VK_NULL_HANDLE
             THEN /\ cpc' = [cpc EXCEPT ![t] = "pl_create"]
                  /\ UNCHANGED <<cacheMutex, returned, call, calls, output>>
             ELSE /\ output' = [output EXCEPT ![t] = layout]
                  /\ Return(t, "OK", layout)
    /\ UNCHANGED <<module, shaderModules, descriptorLayouts, descriptors, perFrameDescriptors, builder, updates, created,
                   destroyed, destroyCalls, createCalls>>

\* vkCreatePipelineLayout into the entry
PipelineCreate(t, success) ==
    /\ cpc[t] = "pl_create"
    /\ LET found == PipelineEntries(pipelineLayouts, BuildInfo)
           layout == created["pipelineLayout"] + 1
       IN IF success
          THEN /\ created' = [created EXCEPT !["pipelineLayout"] = layout]
               /\ pipelineLayouts' = Store(pipelineLayouts, found, layout)
               /\ output' = [output EXCEPT ![t] = layout]
               /\ Return(t, "OK", layout)
          ELSE /\ Return(t, "UNKNOWN", VK_NULL_HANDLE)
               /\ UNCHANGED <<created, pipelineLayouts, output>>
    /\ UNCHANGED <<module, shaderModules, descriptorLayouts, descriptors, perFrameDescriptors, builder, updates, destroyed,
                   destroyCalls, createCalls>>

\* ---- DescriptorSetBuilder: the builder methods, build, buildPerFrame, buildInternal
\* handles of image views, samplers and buffers
Resources == {1, 2}
\* one call of image, image, buffer, sampler or images on a builder: the
\* Descriptor it fills in and the descriptorCount of the write it adds. word0
\* is the first handle of the union (lastUploadedImageIndex = offset + size for
\* IMAGES), word1 the sampler of an IMAGE_SAMPLER, the type of an IMAGE or BUFFER
BuilderCalls ==
    {[dsc |-> [type |-> "IMAGE_SAMPLER", word0 |-> view, word1 |-> sampler], n |-> 1] :
        view \in Resources, sampler \in Resources}
    \cup {[dsc |-> [type |-> "IMAGE", word0 |-> view,
                    word1 |-> VK_DESCRIPTOR_TYPE_SAMPLED_IMAGE], n |-> 1] : view \in Resources}
    \cup {[dsc |-> [type |-> "BUFFER", word0 |-> buffer,
                    word1 |-> VK_DESCRIPTOR_TYPE_UNIFORM_BUFFER], n |-> 1] :
            buffer \in Resources}
    \cup {[dsc |-> [type |-> "SAMPLER", word0 |-> sampler, word1 |-> 0], n |-> 1] :
            sampler \in Resources}
    \cup {[dsc |-> [type |-> "IMAGES", word0 |-> offset + size, word1 |-> 0], n |-> size] :
            size \in 0..1, offset \in 0..1}
\* the builder after these calls: descriptors[count] is filled in, then the
\* writer adds a write for binding writer.bindingCount
Builder(methodCalls) ==
    [descriptors |-> [i \in 1..Len(methodCalls) |-> methodCalls[i].dsc],
     writer |-> [writes |-> [i \in 1..Len(methodCalls) |->
                                [dstBinding |-> i - 1,
                                 descriptorCount |-> methodCalls[i].n]],
                 bindingCount |-> Len(methodCalls)]]
Builders == {Builder(methodCalls) : methodCalls \in SeqsUpTo(BuilderCalls, MaxBindings) \ {<<>>}}
\* DescriptorSetBuilder(cache).buffer(b, VK_DESCRIPTOR_TYPE_UNIFORM_BUFFER, ...)
UniformBuffer(b) ==
    Builder(<<[dsc |-> [type |-> "BUFFER", word0 |-> b,
                        word1 |-> VK_DESCRIPTOR_TYPE_UNIFORM_BUFFER], n |-> 1]>>)
\* the DescriptorSet descriptorSetLayoutFromCache is given: a cache entry that
\* has no handle yet, with the descriptors of the builder in front of the
\* zeroes operator[] left
KeyOf(b, shaderStage) ==
    [handle |-> VK_NULL_HANDLE,
     descriptors |-> [i \in 1..MaxBindings |->
                        IF i <= Len(b.descriptors) THEN b.descriptors[i]
                        ELSE [type |-> "IMAGE_SAMPLER", word0 |-> 0, word1 |-> 0]],
     shaderStage |-> shaderStage,
     count |-> Len(b.descriptors)]

\* mutant: every name leads to the entry of one name
EntryOfAnyName(t) ==
    IF call[t].op = "DescriptorSetBuilder::build"
    THEN descriptors["gbuffer_pass"]
    ELSE perFrameDescriptors[call[t].name][currentFrame]
\* DescriptorSet& retval = cache.descriptors[name], or
\* cache.perFrameDescriptors[name][cache.state->currentFrame]
EntryOf(t) ==
    IF call[t].op = "DescriptorSetBuilder::build"
    THEN descriptors[call[t].name]
    ELSE perFrameDescriptors[call[t].name][currentFrame]
\* a write through that reference
\* a variant of StoreSet that keeps one set per name for all frame slots
StoreSetAllFrames(t, set) ==
    IF call[t].op = "DescriptorSetBuilder::build"
    THEN /\ descriptors' = [descriptors EXCEPT ![call[t].name] = set]
         /\ UNCHANGED perFrameDescriptors
    ELSE /\ perFrameDescriptors' =
                [perFrameDescriptors EXCEPT ![call[t].name] = [i \in FrameSlots |-> set]]
         /\ UNCHANGED descriptors

StoreSet(t, set) ==
    IF call[t].op = "DescriptorSetBuilder::build"
    THEN /\ descriptors' = [descriptors EXCEPT ![call[t].name] = set]
         /\ UNCHANGED perFrameDescriptors
    ELSE /\ perFrameDescriptors' =
                [perFrameDescriptors EXCEPT ![call[t].name][currentFrame] = set]
         /\ UNCHANGED descriptors

SetCall(t, name, b) ==
    Enter(t, "DescriptorSetBuilder::build", name, KeyOf(b, VK_SHADER_STAGE_VERTEX_BIT), b,
          "ds_lock")
PerFrameCall(t, name, b) ==
    Enter(t, "DescriptorSetBuilder::buildPerFrame", name,
          KeyOf(b, VK_SHADER_STAGE_VERTEX_BIT), b, "pf_lock")
SetLock(t) == LockMutex(t, "descriptorMutex", "ds_lock", "ds_find")
\* mutant: buildPerFrame guards its map with descriptorLayoutMutex
PerFrameLockOnLayoutMutex(t) == LockMutex(t, "descriptorLayoutMutex", "pf_lock", "ds_find")

PerFrameLock(t) == LockMutex(t, "perFrameDescriptorMutex", "pf_lock", "ds_find")

\* the asserts of the rebuild branch: count == set.count, and the same type per binding
SameTypes(b, set) ==
    /\ Len(b.descriptors) = Len(set.descriptors)
    /\ \A i \in 1..Len(b.descriptors) : b.descriptors[i].type = set.descriptors[i].type
\* mutant: an IMAGE_SAMPLER is compared by its image only
ShouldRemoveByImage(new, old, writes) ==
    CASE new.type = "IMAGE_SAMPLER" -> new.word0 = old.word0
      [] new.type \in {"IMAGE", "SAMPLER", "BUFFER"} -> new.word0 = old.word0
      [] new.type = "IMAGES" -> writes[Len(writes)].descriptorCount = 0
\* the switch that sets shouldRemove
ShouldRemove(new, old, writes) ==
    CASE new.type = "IMAGE_SAMPLER" -> new.word0 = old.word0 /\ new.word1 = old.word1
      [] new.type \in {"IMAGE", "SAMPLER", "BUFFER"} -> new.word0 = old.word0
      [] new.type = "IMAGES" -> writes[Len(writes)].descriptorCount = 0
\* writes.erase(std::find_if(...)): the first write whose dstBinding is binding
Erase(writes, binding) ==
    LET k == CHOOSE k \in 1..Len(writes) :
                /\ writes[k].dstBinding = binding
                /\ \A j \in 1..(k - 1) : writes[j].dstBinding # binding
    IN SubSeq(writes, 1, k - 1) \o SubSeq(writes, k + 1, Len(writes))
\* the loop of the rebuild branch from binding i on: the writer it leaves
RECURSIVE RemoveUnchanged(_, _, _, _)
RemoveUnchanged(b, set, writer, i) ==
    IF i = Len(b.descriptors) THEN writer
    ELSE IF ShouldRemove(b.descriptors[i + 1], set.descriptors[i + 1], writer.writes)
         THEN RemoveUnchanged(b, set,
                              [writes |-> Erase(writer.writes, i),
                               bindingCount |-> writer.bindingCount - 1],
                              i + 1)
         ELSE RemoveUnchanged(b, set, writer, i + 1)
\* if(writer.bindingCount != 0) writer.updateSet(device, set.handle)
UpdateSet(writer) ==
    IF writer.bindingCount # 0 THEN [called |-> TRUE, writes |-> writer.writes]
    ELSE NoUpdate

\* buildInternal up to the layout lookup of a first build, or all of a rebuild
SetFind(t) ==
    /\ cpc[t] = "ds_find"
    /\ LET set == EntryOf(t)
           writer == RemoveUnchanged(builder[t], set, builder[t].writer, 0)
       IN IF set.handle = VK_NULL_HANDLE
          THEN /\ StoreSet(t, [set EXCEPT !.descriptors = builder[t].descriptors])
               /\ cpc' = [cpc EXCEPT ![t] = "dl_lock"]
               /\ UNCHANGED <<builder, updates, cacheMutex, returned, call, calls, output>>
          ELSE IF ~SameTypes(builder[t], set)
          THEN /\ cpc' = [c \in Callers |-> "aborted"]
               /\ UNCHANGED <<descriptors, perFrameDescriptors, builder, updates,
                              cacheMutex, returned, call, calls, output>>
          ELSE /\ builder' = [builder EXCEPT ![t].writer = writer]
               /\ StoreSet(t, [set EXCEPT !.descriptors = builder[t].descriptors])
               /\ updates' = [updates EXCEPT ![t] = UpdateSet(writer)]
               /\ output' = [output EXCEPT ![t] = set.handle]
               /\ Return(t, "OK", set.handle)
    /\ UNCHANGED <<module, shaderModules, descriptorLayouts, pipelineLayouts, created,
                   destroyed, destroyCalls, createCalls>>

\* allocator.alloc(set.handle, device, layout) is entered: getPool
SetAllocBegin(t) ==
    /\ cpc[t] = "ds_alloc"
    /\ cpc' = [cpc EXCEPT ![t] = "ds_allocating"]
    /\ UNCHANGED <<call, calls, module, output, cacheMutex, shaderModules,
                   descriptorLayouts, pipelineLayouts, descriptors, perFrameDescriptors,
                   builder, updates, created, destroyed, destroyCalls, createCalls,
                   returned>>

\* vkAllocateDescriptorSets in alloc: the loop goes on, or alloc returns OK,
\* with set.handle written only by a successful allocation, and buildInternal
\* passes its assert, updates the set and returns
SetAllocate(t, result) ==
    /\ cpc[t] = "ds_allocating"
    /\ IF result \in PoolExhausted
       THEN UNCHANGED <<cpc, cacheMutex, returned, call, calls, output, descriptors,
                        perFrameDescriptors, updates, created>>
       ELSE LET handle == IF result = "VK_SUCCESS" THEN created["set"] + 1
                          ELSE VK_NULL_HANDLE
            IN /\ created' = [created EXCEPT !["set"] =
                                 IF result = "VK_SUCCESS" THEN @ + 1 ELSE @]
               /\ StoreSet(t, [EntryOf(t) EXCEPT !.handle = handle])
               /\ updates' = [updates EXCEPT ![t] = UpdateSet(builder[t].writer)]
               /\ output' = [output EXCEPT ![t] = handle]
               /\ Return(t, "OK", handle)
    /\ UNCHANGED <<module, builder, shaderModules, descriptorLayouts, pipelineLayouts,
                   destroyed, destroyCalls, createCalls>>

CacheInit ==
    RendererInit(TwoFamilyDevice, 1) /\ ValuesIdle /\ CachesIdle /\ AllocatorIdle /\ DemoIdle

CacheNext ==
    \E t \in Callers :
        \/ ShaderCall(t) /\ UNCHANGED outsideCaches
        \/ ShaderLock(t) /\ UNCHANGED outsideCaches
        \/ ShaderFind(t) /\ UNCHANGED outsideCaches
        \/ \E isOpen \in BOOLEAN : ShaderOpen(t, isOpen) /\ UNCHANGED outsideCaches
        \/ \E success \in BOOLEAN : ShaderCreate(t, success) /\ UNCHANGED outsideCaches
        \/ ShaderRelock(t) /\ UNCHANGED outsideCaches
        \/ ShaderRecheck(t) /\ UNCHANGED outsideCaches
        \/ ShaderDestroy(t) /\ UNCHANGED outsideCaches
        \/ \E set \in LayoutKeys : LayoutCall(t, set, FALSE) /\ UNCHANGED outsideCaches
        \/ LayoutLock(t) /\ UNCHANGED outsideCaches
        \/ LayoutFind(t) /\ UNCHANGED outsideCaches
        \/ \E success \in BOOLEAN : LayoutBuild(t, success) /\ UNCHANGED outsideCaches
        \/ PipelineCall(t) /\ UNCHANGED outsideCaches
        \/ PipelineLock(t) /\ UNCHANGED outsideCaches
        \/ PipelineFind(t) /\ UNCHANGED outsideCaches
        \/ \E success \in BOOLEAN : PipelineCreate(t, success) /\ UNCHANGED outsideCaches
        \/ SetCall(t, "gbuffer_pass", UniformBuffer(1)) /\ UNCHANGED outsideCaches
        \/ SetLock(t) /\ UNCHANGED outsideCaches
        \/ SetFind(t) /\ UNCHANGED outsideCaches
        \/ SetAllocBegin(t) /\ UNCHANGED outsideCaches
        \/ \E result \in AllocateResults : SetAllocate(t, result) /\ UNCHANGED outsideCaches

CacheSpec == CacheInit /\ [][CacheNext]_vars

\* ---- descriptorSetLayoutFromCache alone, asked for both variants
LayoutNext ==
    \E t \in Callers :
        \/ \E set \in LayoutKeys, isPushDescriptor \in BOOLEAN :
              LayoutCall(t, set, isPushDescriptor) /\ UNCHANGED outsideCaches
        \/ LayoutLock(t) /\ UNCHANGED outsideCaches
        \/ LayoutFind(t) /\ UNCHANGED outsideCaches
        \/ \E success \in BOOLEAN : LayoutBuild(t, success) /\ UNCHANGED outsideCaches

LayoutSpec == CacheInit /\ [][LayoutNext]_vars

\* ---- pipeline builds, build and buildPerFrame together
\* the parts of PipelineBuilder::build are the shader-module, layout and
\* pipeline-layout calls, each of which has released its mutex when it returns
AllBuildsNext ==
    \E t \in Callers :
        \/ ShaderCall(t) /\ UNCHANGED outsideCaches
        \/ ShaderLock(t) /\ UNCHANGED outsideCaches
        \/ ShaderFind(t) /\ UNCHANGED outsideCaches
        \/ \E isOpen \in BOOLEAN : ShaderOpen(t, isOpen) /\ UNCHANGED outsideCaches
        \/ \E success \in BOOLEAN : ShaderCreate(t, success) /\ UNCHANGED outsideCaches
        \/ ShaderRelock(t) /\ UNCHANGED outsideCaches
        \/ ShaderRecheck(t) /\ UNCHANGED outsideCaches
        \/ ShaderDestroy(t) /\ UNCHANGED outsideCaches
        \/ LayoutCall(t, BufferSet, FALSE) /\ UNCHANGED outsideCaches
        \/ LayoutLock(t) /\ UNCHANGED outsideCaches
        \/ LayoutFind(t) /\ UNCHANGED outsideCaches
        \/ \E success \in BOOLEAN : LayoutBuild(t, success) /\ UNCHANGED outsideCaches
        \/ PipelineCall(t) /\ UNCHANGED outsideCaches
        \/ PipelineLock(t) /\ UNCHANGED outsideCaches
        \/ PipelineFind(t) /\ UNCHANGED outsideCaches
        \/ \E success \in BOOLEAN : PipelineCreate(t, success) /\ UNCHANGED outsideCaches
        \/ SetCall(t, "gbuffer_pass", UniformBuffer(1)) /\ UNCHANGED outsideCaches
        \/ PerFrameCall(t, "gbuffer_pass", UniformBuffer(1)) /\ UNCHANGED outsideCaches
        \/ SetLock(t) /\ UNCHANGED outsideCaches
        \/ PerFrameLock(t) /\ UNCHANGED outsideCaches
        \/ SetFind(t) /\ UNCHANGED outsideCaches
        \/ SetAllocBegin(t) /\ UNCHANGED outsideCaches
        \/ \E result \in AllocateResults : SetAllocate(t, result) /\ UNCHANGED outsideCaches

AllBuildsSpec == CacheInit /\ [][AllBuildsNext]_vars

\* ---- build and buildPerFrame alone, on two names
\* the builder the callers use: one buffer binding
BuilderInputs == {UniformBuffer(1)}
BuilderNext ==
    \E t \in Callers :
        \/ \E name \in Names, b \in BuilderInputs :
              SetCall(t, name, b) /\ UNCHANGED outsideCaches
        \/ \E name \in Names, b \in BuilderInputs :
              PerFrameCall(t, name, b) /\ UNCHANGED outsideCaches
        \/ SetLock(t) /\ UNCHANGED outsideCaches
        \/ PerFrameLock(t) /\ UNCHANGED outsideCaches
        \/ SetFind(t) /\ UNCHANGED outsideCaches
        \/ LayoutLock(t) /\ UNCHANGED outsideCaches
        \/ LayoutFind(t) /\ UNCHANGED outsideCaches
        \/ \E success \in BOOLEAN : LayoutBuild(t, success) /\ UNCHANGED outsideCaches
        \/ SetAllocBegin(t) /\ UNCHANGED outsideCaches
        \/ \E result \in AllocateResults : SetAllocate(t, result) /\ UNCHANGED outsideCaches

BuilderSpec == CacheInit /\ [][BuilderNext]_vars

\* ---- buildPerFrame inside the frame loop: the calls are made while a frame
\* is being recorded, and endFrame is called when they have returned
PerFrameInit == InitOn(TwoFamilyDevice, MAX_IN_FLIGHT_FRAMES)

\* the thread that runs the frame loop makes the calls
RenderCaller == CHOOSE t \in Callers : \A u \in Callers : t <= u

PerFrameNext ==
    \/ StartFrame /\ UNCHANGED outsideFrame
    \/ WaitForFences /\ UNCHANGED outsideFrame
    \/ \E result \in SwapchainResults :
          AcquireNextImage(result) /\ lastResult' = result /\ UNCHANGED outsideOutcome
    \/ DrainStep /\ UNCHANGED outsideFrame
    \/ DrainClear /\ UNCHANGED outsideFrame
    \/ FrameLease /\ UNCHANGED outsideFrame
    \/ StartFrameReturn /\ UNCHANGED outsideFrame
    \/ cpc[RenderCaller] = "idle" /\ EndFrame /\ UNCHANGED outsideFrame
    \/ EndFrameLock /\ UNCHANGED outsideFrame
    \/ \E submitted \in BOOLEAN, result \in SwapchainResults :
          /\ EndFrameSubmit(submitted, result)
          /\ lastResult' = IF submitted THEN result ELSE SubmitError
          /\ UNCHANGED outsideOutcome
    \/ PoolStep(Driver) /\ UNCHANGED outsideFrame
    \/ (\E q \in QueueIds, s \in Slots : GpuComplete(q, s)) /\ UNCHANGED outsideFrame
    \/ \E t \in {RenderCaller} :
          \/ /\ fpc = "recording"
             /\ PerFrameCall(t, "gbuffer_pass", UniformBuffer(1))
             /\ UNCHANGED outsideCaches
          \/ PerFrameLock(t) /\ UNCHANGED outsideCaches
          \/ SetFind(t) /\ UNCHANGED outsideCaches
          \/ LayoutLock(t) /\ UNCHANGED outsideCaches
          \/ LayoutFind(t) /\ UNCHANGED outsideCaches
          \/ \E success \in BOOLEAN : LayoutBuild(t, success) /\ UNCHANGED outsideCaches
          \/ SetAllocBegin(t) /\ UNCHANGED outsideCaches
          \/ \E result \in AllocateResults : SetAllocate(t, result) /\ UNCHANGED outsideCaches

PerFrameSpec == PerFrameInit /\ [][PerFrameNext]_vars

\* ---- the rebuild branch of buildInternal alone: caller 2 has built the set
\* named gbuffer_pass with one builder, and caller 1 is in build with another
\* one, descriptorMutex taken
RebuildInit ==
    /\ RendererInit(TwoFamilyDevice, 1)
    /\ ValuesIdle
    /\ AllocatorIdle
    /\ DemoIdle
    /\ \E first \in Builders, second \in Builders :
          /\ descriptors = [n \in Names |->
                IF n = "gbuffer_pass"
                THEN [handle |-> 1, descriptors |-> first.descriptors]
                ELSE NoSet]
          /\ builder = [t \in Callers |->
                IF t = 1 THEN second ELSE IF t = 2 THEN first ELSE NoBuilder]
          /\ descriptorLayouts =
                {[key |-> KeyOf(first, VK_SHADER_STAGE_VERTEX_BIT), value |-> 1]}
          /\ updates = [t \in Callers |->
                IF t = 2 THEN UpdateSet(first.writer) ELSE NoUpdate]
          /\ returned =
                {[caller |-> 2, nth |-> 1, op |-> "DescriptorSetBuilder::build",
                  name |-> "gbuffer_pass",
                  set |-> KeyOf(first, VK_SHADER_STAGE_VERTEX_BIT), push |-> FALSE,
                  rc |-> "OK", value |-> 1]}
          /\ createCalls =
                {[caller |-> 2, nth |-> 1,
                  set |-> KeyOf(first, VK_SHADER_STAGE_VERTEX_BIT), push |-> FALSE,
                  layout |-> 1]}
          /\ call = [t \in Callers |->
                IF t = 1
                THEN [op |-> "DescriptorSetBuilder::build", name |-> "gbuffer_pass",
                      set |-> KeyOf(second, VK_SHADER_STAGE_VERTEX_BIT), push |-> FALSE]
                ELSE IF t = 2
                THEN [op |-> "DescriptorSetBuilder::build", name |-> "gbuffer_pass",
                      set |-> KeyOf(first, VK_SHADER_STAGE_VERTEX_BIT), push |-> FALSE]
                ELSE [op |-> "none", name |-> NoName, set |-> NoKey, push |-> FALSE]]
    /\ perFrameDescriptors = [n \in Names |-> [i \in 0..(MAX_IN_FLIGHT_FRAMES - 1) |-> NoSet]]
    /\ cpc = [t \in Callers |-> IF t = 1 THEN "ds_find" ELSE "idle"]
    /\ calls = [t \in Callers |-> IF t \in {1, 2} THEN 1 ELSE 0]
    /\ module = [t \in Callers |-> VK_NULL_HANDLE]
    /\ output = [t \in Callers |-> VK_NULL_HANDLE]
    /\ cacheMutex = [m \in CacheMutexes |-> IF m = "descriptorMutex" THEN 1 ELSE NoThread]
    /\ shaderModules = VK_NULL_HANDLE
    /\ pipelineLayouts = {}
    /\ created = [k \in ObjectKinds |-> IF k \in {"set", "layout"} THEN 1 ELSE 0]
    /\ destroyed = {}
    /\ destroyCalls = 0

RebuildNext == SetFind(1) /\ UNCHANGED outsideCaches

RebuildSpec == RebuildInit /\ [][RebuildNext]_vars

\* ============================================== kvk::DescriptorAllocator
\* One allocator, used by one thread at a time. vkCreateDescriptorPool either
\* succeeds, with a new handle, or fails; createPool does not look at the
\* VkResult and returns its local retval, which a failed call leaves
\* indeterminate: any handle value may come back, among them VK_NULL_HANDLE,
\* the handle of a pool created earlier, and a value that is no pool.
MAX_SETS_PER_POOL == 4096
\* the initialSets init is called with
InitialSets == {1, 2000, 100000}
\* the table init is called with: type, ratio
PoolRatios ==
    << [type |-> VK_DESCRIPTOR_TYPE_STORAGE_BUFFER, ratio |-> 30],
       [type |-> VK_DESCRIPTOR_TYPE_STORAGE_IMAGE, ratio |-> 30],
       [type |-> VK_DESCRIPTOR_TYPE_UNIFORM_BUFFER, ratio |-> 30],
       [type |-> VK_DESCRIPTOR_TYPE_COMBINED_IMAGE_SAMPLER, ratio |-> 40],
       [type |-> VK_DESCRIPTOR_TYPE_SAMPLER, ratio |-> 100],
       [type |-> VK_DESCRIPTOR_TYPE_SAMPLED_IMAGE, ratio |-> 100] >>
\* a handle value that is no descriptor pool
NotAPool == -1
Indeterminate == {VK_NULL_HANDLE, NotAPool} \cup 1..poolsCreated

Min(a, b) == IF a < b THEN a ELSE b
Range(seq) == {seq[i] : i \in 1..Len(seq)}
Occurrences(seq, p) == Cardinality({i \in 1..Len(seq) : seq[i] = p})
\* std::uint32_t(initialSets * 1.5f)
TimesOneAndAHalf(n) == (3 * n) \div 2

\* std::uint32_t(ratio.ratio * setCount), one VkDescriptorPoolSize per ratio; with
\* the ratios and set counts used here the product stays below 2^24, where the
\* float product is exact and the conversion does not wrap
PoolSizes(poolRatios, setCount) ==
    [i \in 1..Len(poolRatios) |->
        [type |-> poolRatios[i].type,
         descriptorCount |-> poolRatios[i].ratio * setCount]]

\* createPool: vkCreateDescriptorPool succeeded, or left retval as it was (any value)
CreatePool(setCount, poolRatios, success, garbage, pool) ==
    /\ poolsCreated + poolsFailed < MaxPools
    /\ createInfos' = Append(createInfos, [maxSets |-> setCount,
                                           poolSizes |-> PoolSizes(poolRatios, setCount)])
    /\ IF success
       THEN /\ pool = poolsCreated + 1
            /\ poolsCreated' = poolsCreated + 1
            /\ livePools' = livePools \cup {pool}
            /\ UNCHANGED poolsFailed
       ELSE /\ pool = garbage
            /\ poolsFailed' = poolsFailed + 1
            /\ UNCHANGED <<poolsCreated, livePools>>

\* mutant: getPool creates a pool whatever the ready list holds
GetPoolAlwaysCreates(success, garbage, pool) ==
    /\ CreatePool(setsPerPool, ratios, success, garbage, pool)
    /\ setsPerPool' = Min(setsPerPool + (setsPerPool \div 2), MAX_SETS_PER_POOL)
    /\ UNCHANGED readyPools

\* getPool: the last ready pool, or a new one; sets readyPools', setsPerPool'
\* and the creation counters, pool is what it returns
GetPool(success, garbage, pool) ==
    IF readyPools # <<>>
    THEN /\ pool = readyPools[Len(readyPools)]
         /\ readyPools' = SubSeq(readyPools, 1, Len(readyPools) - 1)
         /\ UNCHANGED <<setsPerPool, poolsCreated, poolsFailed, livePools, createInfos>>
    ELSE /\ CreatePool(setsPerPool, ratios, success, garbage, pool)
         /\ setsPerPool' = Min(setsPerPool + (setsPerPool \div 2), MAX_SETS_PER_POOL)
         /\ UNCHANGED readyPools

NewCall(name) ==
    /\ apc = "idle"
    /\ allocatorCalls < MaxAllocatorCalls
    /\ allocatorCalls' = allocatorCalls + 1
    /\ lastCall' = name

\* init
AllocatorInit(initialSets, success, garbage) ==
    /\ NewCall("init")
    /\ \E newPool \in Indeterminate \cup {poolsCreated + 1} :
          /\ CreatePool(initialSets, PoolRatios, success, garbage, newPool)
          /\ readyPools' = Append(readyPools, newPool)
    /\ ratios' = <<>>
    /\ setsPerPool' = TimesOneAndAHalf(initialSets)
    /\ UNCHANGED <<fullPools, poolToUse, allocResult, apc, allocReturn>>

\* alloc, up to its first vkAllocateDescriptorSets
AllocBegin(success, garbage) ==
    /\ NewCall("alloc")
    /\ \E pool \in Indeterminate \cup {poolsCreated + 1} :
          /\ GetPool(success, garbage, pool)
          /\ poolToUse' = pool
    /\ apc' = "alloc"
    /\ allocResult' = "none"
    /\ allocReturn' = "none"
    /\ UNCHANGED <<fullPools, ratios>>

\* mutant: every failed allocation sends the pool to the full list
AllocateAnyFailure(result, success, garbage) ==
    /\ apc = "alloc"
    /\ allocResult' = result
    /\ IF result # "VK_SUCCESS"
       THEN /\ fullPools' = Append(fullPools, poolToUse)
            /\ \E pool \in Indeterminate \cup {poolsCreated + 1} :
                  /\ GetPool(success, garbage, pool)
                  /\ poolToUse' = pool
            /\ UNCHANGED <<apc, allocReturn>>
       ELSE /\ readyPools' = Append(readyPools, poolToUse)
            /\ apc' = "idle"
            /\ allocReturn' = "OK"
            /\ UNCHANGED <<fullPools, poolToUse, setsPerPool, poolsCreated, poolsFailed,
                           livePools, createInfos>>
    /\ UNCHANGED <<allocatorCalls, lastCall, ratios>>
\* vkAllocateDescriptorSets from poolToUse: the pool goes to the full list and
\* another one is taken, or the loop ends and the pool goes back to the ready list
Allocate(result, success, garbage) ==
    /\ apc = "alloc"
    /\ allocResult' = result
    /\ IF result \in PoolExhausted
       THEN /\ fullPools' = Append(fullPools, poolToUse)
            /\ \E pool \in Indeterminate \cup {poolsCreated + 1} :
                  /\ GetPool(success, garbage, pool)
                  /\ poolToUse' = pool
            /\ UNCHANGED <<apc, allocReturn>>
       ELSE /\ readyPools' = Append(readyPools, poolToUse)
            /\ apc' = "idle"
            /\ allocReturn' = "OK"
            /\ UNCHANGED <<fullPools, poolToUse, setsPerPool, poolsCreated, poolsFailed,
                           livePools, createInfos>>
    /\ UNCHANGED <<allocatorCalls, lastCall, ratios>>

\* clearPools
ClearPools ==
    /\ NewCall("clearPools")
    /\ readyPools' = readyPools \o fullPools
    /\ fullPools' = <<>>
    /\ UNCHANGED <<setsPerPool, poolToUse, allocResult, apc, poolsCreated, poolsFailed,
                   livePools, ratios, createInfos, allocReturn>>

\* destroyPools
DestroyPools ==
    /\ NewCall("destroyPools")
    /\ livePools' = livePools \ (Range(readyPools) \cup Range(fullPools))
    /\ readyPools' = <<>>
    /\ fullPools' = <<>>
    /\ UNCHANGED <<setsPerPool, poolToUse, allocResult, apc, poolsCreated, poolsFailed,
                   ratios, createInfos, allocReturn>>

AllocatorInitState ==
    /\ RendererInit(TwoFamilyDevice, 1)
    /\ ValuesIdle
    /\ CachesIdle
    /\ AllocatorIdle
    /\ DemoIdle

AllocatorNext ==
    \/ \E initialSets \in InitialSets, success \in BOOLEAN, garbage \in Indeterminate :
          AllocatorInit(initialSets, success, garbage) /\ UNCHANGED outsideAllocator
    \/ \E success \in BOOLEAN, garbage \in Indeterminate :
          AllocBegin(success, garbage) /\ UNCHANGED outsideAllocator
    \/ \E result \in AllocateResults, success \in BOOLEAN, garbage \in Indeterminate :
          Allocate(result, success, garbage) /\ UNCHANGED outsideAllocator
    \/ ClearPools /\ UNCHANGED outsideAllocator
    \/ DestroyPools /\ UNCHANGED outsideAllocator

AllocatorSpec == AllocatorInitState /\ [][AllocatorNext]_vars

\* ---- the allocator on a driver that serves a pool until the pool is used up
\* what buildInternal asks of alloc in the runs here: one set of the layout of
\* UniformBuffer(1), one uniform-buffer descriptor
RequestedType == VK_DESCRIPTOR_TYPE_UNIFORM_BUFFER
\* the descriptorCount a pool was created with for a type
CapacityOf(poolSizes, type) ==
    IF \E i \in 1..Len(poolSizes) : poolSizes[i].type = type
    THEN (CHOOSE size \in Range(poolSizes) : size.type = type).descriptorCount
    ELSE 0
\* the pool has a set and a descriptor of the requested type left
Fits(object) ==
    /\ object.sets < object.maxSets
    /\ object.sets < CapacityOf(object.poolSizes, RequestedType)
\* vkAllocateDescriptorSets: a pool the request fits in is not reported
\* exhausted, a pool it does not fit in is; a handle that is no pool gives anything
DriverResults(pool) ==
    IF pool \in livePools
    THEN IF Fits(poolObjects[pool])
         THEN {"VK_SUCCESS", "VK_ERROR_OUT_OF_HOST_MEMORY"}
         ELSE {"VK_ERROR_OUT_OF_POOL_MEMORY"}
    ELSE AllocateResults
\* vkCreateDescriptorPool, where it succeeded in this step: an empty pool
Created(objects) ==
    IF poolsCreated' = poolsCreated + 1
    THEN LET createInfo == createInfos'[Len(createInfos')]
         IN Append(objects, [maxSets |-> createInfo.maxSets,
                             poolSizes |-> createInfo.poolSizes, sets |-> 0])
    ELSE objects
\* a successful vkAllocateDescriptorSets takes one set from the pool
Taken(pool, result) ==
    IF result = "VK_SUCCESS" /\ pool \in livePools
    THEN [poolObjects EXCEPT ![pool].sets = @ + 1]
    ELSE poolObjects
\* vkResetDescriptorPool on every pool of the two lists
Reset ==
    [p \in 1..Len(poolObjects) |->
        IF p \in Range(readyPools) \cup Range(fullPools)
        THEN [poolObjects[p] EXCEPT !.sets = 0]
        ELSE poolObjects[p]]

ServingNext ==
    \/ \E initialSets \in InitialSets, success \in BOOLEAN, garbage \in Indeterminate :
          /\ AllocatorInit(initialSets, success, garbage)
          /\ poolObjects' = Created(poolObjects)
          /\ UNCHANGED outsideDriver
    \/ \E success \in BOOLEAN, garbage \in Indeterminate :
          /\ AllocBegin(success, garbage)
          /\ poolObjects' = Created(poolObjects)
          /\ UNCHANGED outsideDriver
    \/ \E result \in DriverResults(poolToUse), success \in BOOLEAN, garbage \in Indeterminate :
          /\ Allocate(result, success, garbage)
          /\ poolObjects' = Created(Taken(poolToUse, result))
          /\ UNCHANGED outsideDriver
    \/ ClearPools /\ poolObjects' = Reset /\ UNCHANGED outsideDriver
    \/ DestroyPools /\ UNCHANGED poolObjects /\ UNCHANGED outsideDriver

ServingSpec == AllocatorInitState /\ [][ServingNext]_vars

\* ---- the alloc of renderer.cpp: one retry, the second attempt under VK_CHECK
\* the first vkAllocateDescriptorSets and the if that follows it
AllocateOnce(result, success, garbage) ==
    /\ apc = "alloc"
    /\ allocResult' = result
    /\ IF result \in PoolExhausted
       THEN /\ fullPools' = Append(fullPools, poolToUse)
            /\ \E pool \in Indeterminate \cup {poolsCreated + 1} :
                  /\ GetPool(success, garbage, pool)
                  /\ poolToUse' = pool
            /\ apc' = "alloc_check"
            /\ UNCHANGED allocReturn
       ELSE /\ readyPools' = Append(readyPools, poolToUse)
            /\ apc' = "idle"
            /\ allocReturn' = "OK"
            /\ UNCHANGED <<fullPools, poolToUse, setsPerPool, poolsCreated, poolsFailed,
                           livePools, createInfos>>
    /\ UNCHANGED <<allocatorCalls, lastCall, ratios>>

\* VK_CHECK(vkAllocateDescriptorSets(...)): anything but VK_SUCCESS returns
\* ReturnCode::UNKNOWN on the spot, with poolToUse on neither list
AllocateChecked(result) ==
    /\ apc = "alloc_check"
    /\ allocResult' = result
    /\ apc' = "idle"
    /\ IF result # "VK_SUCCESS"
       THEN /\ allocReturn' = "UNKNOWN"
            /\ UNCHANGED readyPools
       ELSE /\ allocReturn' = "OK"
            /\ readyPools' = Append(readyPools, poolToUse)
    /\ UNCHANGED <<fullPools, poolToUse, setsPerPool, poolsCreated, poolsFailed, livePools,
                   createInfos, allocatorCalls, lastCall, ratios>>

OneRetryNext ==
    \/ \E initialSets \in InitialSets, success \in BOOLEAN, garbage \in Indeterminate :
          AllocatorInit(initialSets, success, garbage) /\ UNCHANGED outsideAllocator
    \/ \E success \in BOOLEAN, garbage \in Indeterminate :
          AllocBegin(success, garbage) /\ UNCHANGED outsideAllocator
    \/ \E result \in AllocateResults, success \in BOOLEAN, garbage \in Indeterminate :
          AllocateOnce(result, success, garbage) /\ UNCHANGED outsideAllocator
    \/ \E result \in AllocateResults :
          AllocateChecked(result) /\ UNCHANGED outsideAllocator
    \/ ClearPools /\ UNCHANGED outsideAllocator
    \/ DestroyPools /\ UNCHANGED outsideAllocator

OneRetrySpec == AllocatorInitState /\ [][OneRetryNext]_vars

\* ================================================ the demo (src/test/test.cpp)
\* ExitProcess: the process is gone, no thread takes another step
ExitProcess ==
    /\ rpc' = "exited"
    /\ hpc' = "exited"
    /\ UNCHANGED <<renderThreadMutex, isInitialized, allow, swapchainExtent, renderFrame>>

\* the render thread from renderThreadMutex.lock() to renderThreadMutex.unlock():
\* kvk::init, the shader modules and pipelines, then the two flags
RenderThreadInit(ok) ==
    \/ /\ rpc = "start"
       /\ renderThreadMutex = NoOwner
       /\ renderThreadMutex' = "render"
       /\ rpc' = "init"
       /\ UNCHANGED <<isInitialized, allow, swapchainExtent, renderFrame, hpc>>
    \/ /\ rpc = "init"
       /\ IF ok
          THEN /\ swapchainExtent' = "nonzero"
               /\ rpc' = "pipelines"
               /\ UNCHANGED <<renderThreadMutex, isInitialized, allow, renderFrame, hpc>>
          ELSE ExitProcess
    \/ /\ rpc = "pipelines"
       /\ IF ok
          THEN /\ rpc' = "store_initialized"
               /\ UNCHANGED <<renderThreadMutex, isInitialized, allow, swapchainExtent,
                              renderFrame, hpc>>
          ELSE ExitProcess
    \/ /\ rpc = "store_initialized"
       /\ ok
       /\ isInitialized' = TRUE
       /\ rpc' = "store_allow"
       /\ UNCHANGED <<renderThreadMutex, allow, swapchainExtent, renderFrame, hpc>>
    \/ /\ rpc = "store_allow"
       /\ ok
       /\ allow' = TRUE
       /\ rpc' = "unlock"
       /\ UNCHANGED <<renderThreadMutex, isInitialized, swapchainExtent, renderFrame, hpc>>
    \/ /\ rpc = "unlock"
       /\ ok
       /\ renderThreadMutex' = NoOwner
       /\ rpc' = "assets"
       /\ UNCHANGED <<isInitialized, allow, swapchainExtent, renderFrame, hpc>>

\* loadGltf, the instance and staging buffers, the upload: outside the mutex
RenderThreadAssets(ok) ==
    /\ rpc = "assets"
    /\ IF ok
       THEN /\ rpc' = "spin"
            /\ UNCHANGED <<renderThreadMutex, isInitialized, allow, swapchainExtent,
                           renderFrame, hpc>>
       ELSE ExitProcess

\* what the unlocked read of state.swapchainExtent can give: winProc may be
\* writing it at the same time
ExtentsRead == IF hpc = "recreate" THEN {"zero", "nonzero"} ELSE {swapchainExtent}
\* the head of the loop: the unlocked test of allow and the extent, the
\* lock_guard, and the test of the extent again
FrameGate(extent) ==
    \/ /\ rpc = "spin"
       /\ extent \in ExtentsRead
       /\ allow /\ extent = "nonzero"
       /\ rpc' = "frame_lock"
       /\ UNCHANGED <<renderThreadMutex, isInitialized, allow, swapchainExtent,
                      renderFrame, hpc>>
    \/ /\ rpc = "frame_lock"
       /\ extent = swapchainExtent
       /\ renderThreadMutex = NoOwner
       /\ renderThreadMutex' = "render"
       /\ rpc' = "frame_check"
       /\ UNCHANGED <<isInitialized, allow, swapchainExtent, renderFrame, hpc>>
    \/ /\ rpc = "frame_check"
       /\ extent = swapchainExtent
       /\ IF extent = "zero"
          THEN /\ renderThreadMutex' = NoOwner
               /\ rpc' = "spin"
          ELSE /\ rpc' = "frame_fence"
               /\ UNCHANGED renderThreadMutex
       /\ UNCHANGED <<isInitialized, allow, swapchainExtent, renderFrame, hpc>>

\* a continue inside the iteration: the lock_guard is released
Continue ==
    /\ renderThreadMutex' = NoOwner
    /\ rpc' = "spin"
    /\ UNCHANGED <<isInitialized, allow, swapchainExtent, renderFrame, hpc>>
Proceed(label) ==
    /\ rpc' = label
    /\ UNCHANGED <<renderThreadMutex, isInitialized, allow, swapchainExtent, renderFrame, hpc>>
\* one iteration under the lock_guard: fence wait, drain and clearPools,
\* acquire, drawScene, submit, present, and the advance of currentFrame
FrameIteration(result, ok) ==
    \/ rpc = "frame_fence" /\ ok /\ result = "VK_SUCCESS" /\ Proceed("frame_acquire")
    \/ /\ rpc = "frame_acquire"
       /\ ok
       /\ IF result = "VK_ERROR_OUT_OF_DATE_KHR" THEN Continue
          ELSE IF ~Presentable(result) THEN ExitProcess
          ELSE Proceed("frame_draw")
    \/ /\ rpc = "frame_draw"
       /\ result = "VK_SUCCESS"
       /\ IF ok THEN Proceed("frame_submit") ELSE ExitProcess
    \/ /\ rpc = "frame_submit"
       /\ result = "VK_SUCCESS"
       /\ IF ok THEN Proceed("frame_present") ELSE ExitProcess
    \/ /\ rpc = "frame_present"
       /\ ok
       /\ IF result = "VK_ERROR_OUT_OF_DATE_KHR" THEN Continue
          ELSE IF ~Presentable(result) THEN ExitProcess
          ELSE /\ renderFrame' = (renderFrame + 1) % MAX_IN_FLIGHT_FRAMES
               /\ renderThreadMutex' = NoOwner
               /\ rpc' = "spin"
               /\ UNCHANGED <<isInitialized, allow, swapchainExtent, hpc>>

\* mutant: WM_SIZE recreates the swapchain without taking renderThreadMutex
WmSizeUnlocked(ok, extent) ==
    \/ /\ hpc = "idle"
       /\ ok /\ extent = swapchainExtent
       /\ isInitialized
       /\ hpc' = "store_allow"
       /\ UNCHANGED <<renderThreadMutex, isInitialized, allow, swapchainExtent, renderFrame, rpc>>
    \/ /\ hpc = "store_allow"
       /\ ok /\ extent = swapchainExtent
       /\ allow' = FALSE
       /\ hpc' = "lock"
       /\ UNCHANGED <<renderThreadMutex, isInitialized, swapchainExtent, renderFrame, rpc>>
    \/ /\ hpc = "lock"
       /\ ok /\ extent = swapchainExtent
       /\ hpc' = "recreate"
       /\ UNCHANGED <<renderThreadMutex, isInitialized, allow, swapchainExtent, renderFrame, rpc>>
    \/ /\ hpc = "recreate"
       /\ IF ok
          THEN /\ swapchainExtent' = extent
               /\ allow' = TRUE
               /\ hpc' = "idle"
               /\ UNCHANGED <<renderThreadMutex, isInitialized, renderFrame, rpc>>
          ELSE ExitProcess
\* winProc on WM_SIZE: with isInitialized set, allow is cleared, the mutex is
\* taken, the swapchain is recreated for the new client rectangle and allow is
\* set again; otherwise the message only gets logged
WmSize(ok, extent) ==
    \/ /\ hpc = "idle"
       /\ ok /\ extent = swapchainExtent
       /\ isInitialized
       /\ hpc' = "store_allow"
       /\ UNCHANGED <<renderThreadMutex, isInitialized, allow, swapchainExtent, renderFrame, rpc>>
    \/ /\ hpc = "store_allow"
       /\ ok /\ extent = swapchainExtent
       /\ allow' = FALSE
       /\ hpc' = "lock"
       /\ UNCHANGED <<renderThreadMutex, isInitialized, swapchainExtent, renderFrame, rpc>>
    \/ /\ hpc = "lock"
       /\ ok /\ extent = swapchainExtent
       /\ renderThreadMutex = NoOwner
       /\ renderThreadMutex' = "winProc"
       /\ hpc' = "recreate"
       /\ UNCHANGED <<isInitialized, allow, swapchainExtent, renderFrame, rpc>>
    \/ /\ hpc = "recreate"
       /\ IF ok
          THEN /\ swapchainExtent' = extent
               /\ allow' = TRUE
               /\ renderThreadMutex' = NoOwner
               /\ hpc' = "idle"
               /\ UNCHANGED <<isInitialized, renderFrame, rpc>>
          ELSE ExitProcess

\* WM_CLOSE posts WM_QUIT, and the message loop of main exits the process
WmQuit == hpc = "idle" /\ ExitProcess

Extents == {"zero", "nonzero"}
DemoNext ==
    \/ \E ok \in BOOLEAN : RenderThreadInit(ok) /\ UNCHANGED outsideDemo
    \/ \E ok \in BOOLEAN : RenderThreadAssets(ok) /\ UNCHANGED outsideDemo
    \/ \E extent \in Extents : FrameGate(extent) /\ UNCHANGED outsideDemo
    \/ \E result \in SwapchainResults, ok \in BOOLEAN :
          FrameIteration(result, ok) /\ UNCHANGED outsideDemo
    \/ \E ok \in BOOLEAN, extent \in Extents : WmSize(ok, extent) /\ UNCHANGED outsideDemo
    \/ WmQuit /\ UNCHANGED outsideDemo

DemoSpec == InitOn(TwoFamilyDevice, 1) /\ [][DemoNext]_vars

\* ------------------------------------------------------------ properties
\* a thread holds an outstanding lease from the return of lockCommandPool until
\* unlockCommandPool has marked the slot free
Holder(t) == pc[t] \in {"holding", "unlock_mutex", "unlock_locked"}
HoldersOf(q) == {t \in Threads : Holder(t) /\ poolInfo[t].queue = q}
\* a thread is inside lockCommandPool
InLock(t) == pc[t] \in {"lock_mutex", "lock_locked", "lock_wait"}
AllOccupied(q) == \A s \in Slots : isSlotOccupied[q][s]

\* C1: no two outstanding leases reference the same slot of the same queue
C1_LeaseExclusive ==
    \A t, u \in Threads :
        (t # u /\ Holder(t) /\ Holder(u)) => poolInfo[t] # poolInfo[u]

C1_Witness ==
    \E t, u \in Threads :
        /\ t # u /\ Holder(t) /\ Holder(u)
        /\ poolInfo[t].queue = poolInfo[u].queue
        /\ poolInfo[t].poolIndex # poolInfo[u].poolIndex

\* C2: the number of outstanding leases on a queue is at most the slot count
\* createQueue configured
C2_LeaseBound ==
    \A q \in QueueIds : Cardinality(HoldersOf(q)) <= coreCount

C2_Witness ==
    \E q \in QueueIds :
        /\ Cardinality(HoldersOf(q)) = coreCount
        /\ \E t \in Threads : pc[t] = "lock_wait" /\ familyIndex[t] = q

\* C3: a lockCommandPool call that finds every slot of its queue occupied can
\* only go on waiting (no lease, no failure), and a lease is only ever
\* returned for a slot that was free
C3_BlocksWhileFull ==
    [][\A t \in Threads :
          /\ (pc[t] = "lock_locked" /\ AllOccupied(familyIndex[t]))
                => (pc'[t] \in {"lock_locked", "lock_wait"} /\ ~aborted')
          /\ (InLock(t) /\ pc'[t] = "holding")
                => ~isSlotOccupied[poolInfo'[t].queue][poolInfo'[t].poolIndex]]_vars

C3_Witness ==
    \E t \in Threads : pc[t] = "holding" /\ waited[t]

\* C4 as stated: every thread blocked in lockCommandPool eventually obtains a slot
C4_EveryWaiterServed ==
    \A t \in Threads : (pc[t] = "lock_wait") ~> (pc[t] = "holding")

\* C4 amended: no wake-up is lost: a thread blocked on poolCvar while a slot of
\* its queue is free eventually obtains a slot, unless other callers take the
\* free slots first (the free count is zero again)
C4_NoLostWakeup ==
    \A t \in Threads :
        (pc[t] = "lock_wait" /\ freePoolCount[familyIndex[t]] # 0)
            ~> (pc[t] = "holding" \/ (InLock(t) /\ freePoolCount[familyIndex[t]] = 0))

C4_Witness ==
    \E t, u \in Threads :
        /\ t # u
        /\ pc[t] = "holding" /\ waited[t]
        /\ pc[u] = "lock_wait" /\ familyIndex[u] = poolInfo[t].queue

\* C5: unlockCommandPool on a slot that is already free stops at the assertion
\* and leaves isSlotOccupied and freePoolCount of the queue as they were; the
\* free count never exceeds the slot count
C5_DoubleReturnRejected ==
    [][/\ \A t \in Threads :
             (pc[t] = "unlock_locked"
                 /\ ~isSlotOccupied[poolInfo[t].queue][poolInfo[t].poolIndex])
             => /\ pc'[t] = "unlock_locked"
                /\ isSlotOccupied'[poolInfo[t].queue] = isSlotOccupied[poolInfo[t].queue]
                /\ freePoolCount'[poolInfo[t].queue] = freePoolCount[poolInfo[t].queue]
       /\ \A q \in QueueIds : freePoolCount'[q] <= coreCount]_vars

C5_Witness ==
    /\ aborted
    /\ \E t \in Threads :
          /\ pc[t] = "unlock_locked"
          /\ ~isSlotOccupied[poolInfo[t].queue][poolInfo[t].poolIndex]

\* C6: a call of lockCommandPool is served by the Queue created for the family
\* that init chose for the requested capability: the transfer family for a
\* transfer-only request, the graphics family for every other request
C6_QueueMatchesCapability ==
    \A t \in Threads :
        (pc[t] \in {"lock_mutex", "lock_locked", "lock_wait", "ub"})
            => /\ familyIndex[t] \in QueueIds
               /\ QueueFamilyOf(familyIndex[t]) =
                     IF desiredQueueFlags[t] = VK_QUEUE_TRANSFER_BIT
                     THEN family.transfer ELSE family.graphics

\* ---------------------------------------------------------------- frames
SlotOccupied(info) == isSlotOccupied[info.queue][info.poolIndex]
GpuBusy(info) == gpuWork[info.queue][info.poolIndex] # NoFence
\* the leases whose return is waiting in the deletion queue of frame slot i
DeferredLeases(i) ==
    {frames[i].deletionQueue[k].info :
        k \in {j \in DOMAIN frames[i].deletionQueue : frames[i].deletionQueue[j].kind = "unlock"}}
\* startFrame of frame slot i has passed its fence wait and runs the drain loop
Draining(i) == fpc = "sf_drain" /\ frameIndex = i /\ fenceWaited
LeaseKept(i) ==
    \A info \in DeferredLeases(i) :
        /\ ~Draining(i) => SlotOccupied(info)
        /\ frames[i].inFlightFence = SlotFence(info.queue, info.poolIndex)
Reverse(seq) == [k \in 1..Len(seq) |-> seq[Len(seq) + 1 - k]]

\* C7: the command-pool slot startFrame leases in cycle N of a frame slot stays
\* marked occupied through recording, endFrame and submission; it is marked
\* free only inside the next startFrame of the same frame slot, in the drain
\* that follows a successful wait on the fence cycle N's submission signals.
C7_LeaseOutlivesCycle ==
    [][\A i \in FrameSlots :
          /\ LeaseKept(i)
          /\ LeaseKept(i)'
          /\ \A info \in DeferredLeases(i) :
                (SlotOccupied(info) /\ ~SlotOccupied(info)') => Draining(i)]_vars

\* the drain of a later cycle has returned the lease of the cycle before
C7_Witness ==
    /\ fpc = "sf_drain"
    /\ fenceWaited
    /\ drainIter = 0
    /\ pc[Driver] = "idle"
    /\ \E k \in DOMAIN executed :
          executed[k].kind = "unlock" /\ ~SlotOccupied(executed[k].info)

\* C8: no slot is marked free while GPU work submitted from its command buffer
\* is still executing, and no thread, frame pacer or upload helper, is inside
\* unlockCommandPool for a slot whose submission has not finished.
C8_FreeSlotHasNoGpuWork ==
    /\ \A q \in QueueIds : \A s \in Slots : ~isSlotOccupied[q][s] => gpuWork[q][s] = NoFence
    /\ \A t \in FrameThreads :
          pc[t] \in {"unlock_mutex", "unlock_locked"} => ~GpuBusy(poolInfo[t])

\* a slot the frame pacer returned in this drain is leased again by an upload
\* helper, whose own submission from it is executing
C8_Witness ==
    \E k \in DOMAIN executed : \E t \in Uploaders :
        /\ executed[k].kind = "unlock"
        /\ pc[t] = "im_wait"
        /\ poolInfo[t] = executed[k].info
        /\ GpuBusy(poolInfo[t])

\* C9: the drain runs the callbacks of the deletion queue in reverse
\* registration order, each exactly once (what has run is the reversed tail of
\* the queue), and leaves the queue empty before the frame is used again.
C9_DrainIsLifo ==
    LET dq == frames[frameIndex].deletionQueue IN
    /\ fpc = "sf_drain" =>
          /\ drainIter \in 0..Len(dq)
          /\ executed = Reverse(SubSeq(dq, drainIter + 1, Len(dq)))
    /\ fpc = "sf_lease" => dq = <<>>

\* a drain has run the lease return and every cleanup of the cycle before
C9_Witness ==
    /\ fpc = "sf_drain"
    /\ drainIter = 0
    /\ pc[Driver] = "idle"
    /\ Len(executed) = MaxCleanups + 1
    /\ executed[1] = UserCallback(MaxCleanups)
    /\ executed[Len(executed)].kind = "unlock"

\* C10: state.currentFrame is 0 after init, stays in 0..MAX_IN_FLIGHT_FRAMES-1,
\* changes only at the entry of endFrame, there by one modulo
\* MAX_IN_FLIGHT_FRAMES from the frame slot the cycle used, and startFrame
\* uses the frame slot it names: the cycles visit the frame slots round-robin.
C10_RoundRobin ==
    /\ currentFrame = 0
    /\ [](currentFrame \in 0..(MAX_IN_FLIGHT_FRAMES - 1))
    /\ [][/\ (fpc = "recording" /\ fpc' = "ef_mutex") =>
                 /\ currentFrame = frameIndex
                 /\ currentFrame' = (currentFrame + 1) % MAX_IN_FLIGHT_FRAMES
          /\ currentFrame' # currentFrame => (fpc = "recording" /\ fpc' = "ef_mutex")
          /\ (fpc = "idle" /\ fpc' = "sf_wait") => frameIndex' = currentFrame]_vars

\* endFrame of the last frame slot has wrapped the index to 0
C10_Witness ==
    /\ fpc = "ef_mutex"
    /\ frameIndex = MAX_IN_FLIGHT_FRAMES - 1
    /\ currentFrame = 0

\* the driver errors other than a stale or suboptimal swapchain
FatalResults ==
    SwapchainResults \ {"VK_SUCCESS", "VK_SUBOPTIMAL_KHR", "VK_ERROR_OUT_OF_DATE_KHR"}
\* the fence is signaled, or a pending submission will signal it
FenceWillSignal(f) ==
    f \in signaled \/ \E q \in QueueIds : \E s \in Slots : gpuWork[q][s] = f
\* thread t is between taking submitMutex of queue q and letting go of it
Submitting(t, q) ==
    \/ t = Driver /\ fpc = "ef_locked" /\ frames[frameIndex].queue = q
    \/ t \in Uploaders /\ pc[t] = "im_locked" /\ poolInfo[t].queue = q

\* C11: what startFrame or endFrame returns after an out-of-date acquire or
\* present differs from what it returns after any other driver error.
C11_OutOfDateDistinguished ==
    (fpc = "idle" /\ lastResult = "VK_ERROR_OUT_OF_DATE_KHR") =>
        \A r \in FatalResults : ret # AcquireOutcome(r) /\ ret # PresentOutcome(r)

\* C12: when startFrame has returned nullptr for an out-of-date acquire, the
\* in-flight fence of the frame slot the next startFrame will wait on is
\* signaled or has a pending submission that will signal it.
C12_SkippedFrameFenceUsable ==
    (fpc = "idle" /\ ret = "nullptr" /\ lastResult = "VK_ERROR_OUT_OF_DATE_KHR") =>
        FenceWillSignal(frames[currentFrame].inFlightFence)

\* C13: at most one thread at a time is inside the submit section of a Queue,
\* and the thread inside it owns the queue's submitMutex.
C13_SubmitsSerialized ==
    \A q \in QueueIds :
        /\ Cardinality({t \in FrameThreads : Submitting(t, q)}) <= 1
        /\ \A t \in FrameThreads : Submitting(t, q) => submitMutex[q] = t

\* endFrame waits for submitMutex while immediateSubmit submits on the same Queue
C13_Witness ==
    \E t \in Uploaders :
        /\ fpc = "ef_mutex"
        /\ Submitting(t, frames[frameIndex].queue)

\* ------------------------------------------------------------ cache keys
\* the two sequences of a PipelineLayoutInfo, element by element
SameSequences(x, y) ==
    /\ Len(x.layouts) = Len(y.layouts)
    /\ \A i \in 1..Len(x.layouts) : x.layouts[i] = y.layouts[i]
    /\ Len(x.pushConstantRanges) = Len(y.pushConstantRanges)
    /\ \A i \in 1..Len(x.pushConstantRanges) :
          /\ x.pushConstantRanges[i].stageFlags = y.pushConstantRanges[i].stageFlags
          /\ x.pushConstantRanges[i].offset = y.pushConstantRanges[i].offset
          /\ x.pushConstantRanges[i].size = y.pushConstantRanges[i].size
\* stage mask, binding count, and kind and sub-type of every binding
SameShape(x, y) ==
    /\ x.shaderStage = y.shaderStage
    /\ x.count = y.count
    /\ \A i \in 1..x.count :
          /\ x.descriptors[i].type = y.descriptors[i].type
          /\ x.descriptors[i].type \in {"IMAGE", "BUFFER"} =>
                x.descriptors[i].word1 = y.descriptors[i].word1

\* C17: two PipelineLayoutInfo values compare equal exactly when their layout
\* sequences and their push-constant range sequences are element-wise equal,
\* and values that compare equal have the same PipelineLayoutHash.
C17_LayoutInfoEqualAndHash ==
    vpc = "compared" =>
        /\ equalResult <=> SameSequences(operandA, operandB)
        /\ equalResult => hashA = hashB

\* equal contents kept in different vectors, with something to compare
C17_Witness ==
    /\ vpc = "compared"
    /\ equalResult
    /\ operandA.data # operandB.data
    /\ Len(operandA.layouts) = MaxLayouts
    /\ Len(operandA.pushConstantRanges) = MaxRanges

\* C18: two descriptor-set descriptions compare equal exactly when they agree
\* in stage mask, binding count and the kind and sub-type of every binding,
\* whatever handles they carry, and descriptions that compare equal hash equal.
C18_ShapeEqualAndHash ==
    vpc = "compared" =>
        /\ equalResult <=> SameShape(operandA, operandB)
        /\ equalResult => hashA = hashB

\* same shape, different handles, different entries beyond count
C18_Witness ==
    /\ vpc = "compared"
    /\ equalResult
    /\ operandA.handle # operandB.handle
    /\ operandA.count = MaxBindings - 1
    /\ operandA.descriptors[MaxBindings].type # operandB.descriptors[MaxBindings].type

\* ---------------------------------------------------------------- caches
ShaderReturns == {r \in returned : r.op = "shaderModuleFromCache"}
LayoutReturns == {r \in returned : r.op = "descriptorSetLayoutFromCache"}
InShaderCall(t) == cpc[t] \in {"sm_lock", "sm_find", "sm_open", "sm_create",
                               "sm_relock", "sm_recheck", "sm_destroy"}
\* the modules vkCreateShaderModule has returned
Modules == 1..created["module"]
\* a built module its builder has neither stored nor destroyed yet
InHand(id) ==
    \E t \in Callers : module[t] = id /\ cpc[t] \in {"sm_relock", "sm_recheck", "sm_destroy"}
\* the file I/O and the driver create calls of a miss
Constructing(t) ==
    cpc[t] \in {"sm_open", "sm_create", "dl_build", "pl_create", "ds_alloc", "ds_allocating"}
HoldsMutex(t) == \E m \in CacheMutexes : cacheMutex[m] = t

\* C14 as stated: once the calls with the path are over, the cache has one
\* entry for it, every call has returned that module, and every other module
\* built was destroyed exactly once and returned to nobody.
C14_OneSurvivingModule ==
    (ShaderReturns # {} /\ \A t \in Callers : ~InShaderCall(t)) =>
        /\ shaderModules # VK_NULL_HANDLE
        /\ \A r \in ShaderReturns : r.value = shaderModules
        /\ \A id \in Modules \ {shaderModules} : id \in destroyed
        /\ destroyCalls = Cardinality(destroyed)
        /\ \A r \in ShaderReturns : r.value \notin destroyed

\* C14: in every interleaving of shaderModuleFromCache calls with one path,
\* every call that returns OK returns the module the cache holds for the path,
\* which is never replaced; a call that returns an error returns no module;
\* every module built is the cached one, or still in its builder's hands, or
\* destroyed, exactly once, and a destroyed module is neither cached nor
\* returned to any caller.
C14_RaceResolved ==
    /\ \A r \in ShaderReturns :
          IF r.rc = "OK"
          THEN shaderModules # VK_NULL_HANDLE /\ r.value = shaderModules
          ELSE r.value = VK_NULL_HANDLE
    /\ shaderModules \in Modules \cup {VK_NULL_HANDLE}
    /\ \A id \in Modules :
          /\ id = shaderModules \/ id \in destroyed \/ InHand(id)
          /\ ~(id = shaderModules /\ id \in destroyed)
          /\ ~(id \in destroyed /\ InHand(id))
    /\ destroyCalls = Cardinality(destroyed)
    /\ \A r \in ShaderReturns : r.value \notin destroyed

\* two callers both built a module; one of them lost and destroyed its own, and
\* both have returned the surviving one
C14_Witness ==
    /\ \A t \in Callers : cpc[t] = "idle"
    /\ destroyed # {}
    /\ \E r1 \in ShaderReturns, r2 \in ShaderReturns :
          /\ r1.caller # r2.caller
          /\ r1.rc = "OK" /\ r2.rc = "OK"
          /\ r1.value = shaderModules /\ r2.value = shaderModules

C16_BuildsOutsideLock ==
    \A t \in Callers : Constructing(t) => ~HoldsMutex(t)

\* ------------------------------------------------------ descriptor pools
\* how often the pool is on the two lists together
Listed(p) == Occurrences(readyPools, p) + Occurrences(fullPools, p)
\* between calls, and as long as every vkCreateDescriptorPool has succeeded,
\* every live pool is on exactly one list, once
ListedOnceWhileCreated ==
    (apc = "idle" /\ poolsFailed = 0) => \A p \in livePools : Listed(p) = 1

\* C19 as stated: after every completed init, alloc or clearPools call, every
\* pool created and not destroyed is on exactly one of the ready list and the
\* full list, exactly once.
C19_EveryPoolListedOnce ==
    apc = "idle" => \A p \in livePools : Listed(p) = 1

\* C20: a pool is put on the full list only by alloc, after an allocation from
\* it failed with out-of-pool-memory or fragmented-pool, and is taken off the
\* full list only by clearPools or destroyPools.
C20_FullListMoves ==
    [][\A p \in Range(fullPools) \cup Range(fullPools') :
          /\ Occurrences(fullPools', p) > Occurrences(fullPools, p) =>
                /\ apc = "alloc" /\ lastCall' = "alloc"
                /\ p = poolToUse
                /\ allocResult' \in PoolExhausted
                /\ fullPools' = Append(fullPools, p)
          /\ Occurrences(fullPools', p) < Occurrences(fullPools, p) =>
                /\ lastCall' \in {"clearPools", "destroyPools"}
                /\ fullPools' = <<>>
                /\ lastCall' = "clearPools" =>
                      Occurrences(readyPools', p) =
                          Occurrences(readyPools, p) + Occurrences(fullPools, p)]_vars

\* alloc has put two pools on the full list, each after an allocation from it
\* failed for lack of pool memory, and is about to try the next pool
C20_Witness ==
    /\ apc = "alloc"
    /\ poolsFailed = 0
    /\ allocResult \in PoolExhausted
    /\ Len(fullPools) > 1
    /\ poolToUse \notin Range(fullPools)

\* C21 as stated: alloc never reports pool exhaustion to its caller. An
\* allocation that fails with out-of-pool-memory or fragmented-pool puts the
\* pool on the full list and alloc goes on with another pool, however many
\* pools in a row are exhausted; alloc returns only after an attempt that did
\* not fail with exhaustion.
C21_ExhaustionRetried ==
    [][(apc # "idle" /\ allocResult' \in PoolExhausted) =>
          /\ apc' # "idle"
          /\ allocReturn' = "none"
          /\ fullPools' = Append(fullPools, poolToUse)]_vars

\* C22 as stated: alloc returns OK only when a descriptor set was allocated;
\* a driver error that is not pool exhaustion is not returned as OK.
C22_OkMeansAllocated ==
    (apc = "idle" /\ lastCall = "alloc" /\ allocReturn = "OK") => allocResult = "VK_SUCCESS"

\* C23 as stated: the set capacity every pool is created with and the stored
\* baseline setsPerPool never exceed MAX_SETS_PER_POOL.
C23_CapacityCapped ==
    /\ setsPerPool <= MAX_SETS_PER_POOL
    /\ \A i \in 1..Len(createInfos) : createInfos[i].maxSets <= MAX_SETS_PER_POOL

\* getPool has created a pool in this step
GetPoolCreates == lastCall' = "alloc" /\ Len(createInfos') = Len(createInfos) + 1
\* each pool getPool creates has the baseline b of that moment as its capacity,
\* and the baseline becomes min(b * 1.5, MAX_SETS_PER_POOL)
BaselineStep ==
    [][GetPoolCreates =>
          /\ createInfos'[Len(createInfos')].maxSets = setsPerPool
          /\ setsPerPool' = Min(TimesOneAndAHalf(setsPerPool), MAX_SETS_PER_POOL)]_vars

\* C24 as stated: each getPool that finds the ready list empty creates a pool
\* at the baseline b and sets the baseline to min(b * 1.5, MAX_SETS_PER_POOL);
\* the baseline never decreases, and it strictly increases until it is at the cap.
C24_BaselineGrows ==
    [][GetPoolCreates =>
          /\ createInfos'[Len(createInfos')].maxSets = setsPerPool
          /\ setsPerPool' = Min(TimesOneAndAHalf(setsPerPool), MAX_SETS_PER_POOL)
          /\ setsPerPool' >= setsPerPool
          /\ setsPerPool < MAX_SETS_PER_POOL => setsPerPool' > setsPerPool]_vars

\* C25 as stated: the allocator keeps the ratio table init was given, and every
\* pool is created with, per descriptor type, ratio times its set capacity.
C25_RatiosKept ==
    lastCall # "none" =>
        /\ ratios = PoolRatios
        /\ \A i \in 1..Len(createInfos) :
              createInfos[i].poolSizes = PoolSizes(PoolRatios, createInfos[i].maxSets)

\* ------------------------------------------------------------ named sets
\* C26 as stated: the ready and full lists of the shared allocator are mutated
\* under one mutex; no two threads that call build and buildPerFrame are in
\* DescriptorAllocator::alloc on the shared allocator at the same time.
C26_AllocSerialized ==
    \A t1 \in Callers, t2 \in Callers :
        (cpc[t1] = "ds_allocating" /\ cpc[t2] = "ds_allocating") => t1 = t2

\* caller 1 rebuilds the set in this step
Rebuilds == cpc[1] = "ds_find" /\ cpc'[1] = "idle"
\* the handles given for a binding differ from the recorded ones
Changed(new, old) == new.word0 # old.word0 \/ new.word1 # old.word1
\* the update has a write for binding i (counted from 1)
Written(update, i) ==
    update.called /\ \E k \in 1..Len(update.writes) : update.writes[k].dstBinding = i - 1
\* what decides over the write of binding i of builder b: the handles for the
\* kinds with one resource, the descriptor count of the last write the builder
\* has queued for an array of images
Due(b, old, i) ==
    IF b.descriptors[i].type = "IMAGES"
    THEN b.writer.writes[Len(b.writer.writes)].descriptorCount # 0
    ELSE Changed(b.descriptors[i], old[i])

\* C27 as stated: a rebuild issues a write for binding i if and only if the
\* handles bound at i differ from those the previous build recorded; it issues
\* no update when no binding changed; afterwards the recorded bindings are the
\* new ones.
C27_WritesExactlyTheChanged ==
    [][Rebuilds =>
          LET old == descriptors["gbuffer_pass"].descriptors
              new == builder[1].descriptors
          IN /\ \A i \in 1..Len(new) : Written(updates'[1], i) <=> Changed(new[i], old[i])
             /\ updates'[1].called <=> \E i \in 1..Len(new) : Changed(new[i], old[i])
             /\ descriptors'["gbuffer_pass"].descriptors = new]_vars

\* C27, amended: a binding of a kind with one resource is written if and only
\* if its handles differ from the recorded ones, an array of images if and
\* only if the last queued write has a descriptor count other than 0; no
\* update is issued when no write is left; afterwards the recorded bindings
\* are the new ones, under the handle the set had.
C27_WritesTheDue ==
    [][Rebuilds =>
          LET old == descriptors["gbuffer_pass"].descriptors
              new == builder[1].descriptors
          IN /\ \A i \in 1..Len(new) : Written(updates'[1], i) <=> Due(builder[1], old, i)
             /\ updates'[1].called <=> \E i \in 1..Len(new) : Due(builder[1], old, i)
             /\ descriptors'["gbuffer_pass"] =
                    [handle |-> descriptors["gbuffer_pass"].handle, descriptors |-> new]]_vars

\* a rebuild of two bindings has written the one whose buffer changed and
\* skipped the image and sampler that stayed
C27_Witness ==
    /\ cpc[1] = "idle"
    /\ Len(builder[1].descriptors) = 2
    /\ builder[1].descriptors[1].type = "IMAGE_SAMPLER"
    /\ builder[1].descriptors[2].type = "BUFFER"
    /\ updates[1].called
    /\ Len(updates[1].writes) = 1
    /\ updates[1].writes[1].dstBinding = 1
    /\ descriptors["gbuffer_pass"].descriptors = builder[1].descriptors

BuildReturns == {r \in returned : r.op = "DescriptorSetBuilder::build"}
\* the sets the driver has allocated are those of the entries
EachEntryAllocatedOnce ==
    /\ \A n1 \in Names, n2 \in Names :
          (descriptors[n1].handle # VK_NULL_HANDLE /\ n1 # n2) =>
              descriptors[n1].handle # descriptors[n2].handle
    /\ \A n1 \in Names, n2 \in Names :
          descriptors[n1].handle # VK_NULL_HANDLE =>
              descriptors[n1].handle # perFrameDescriptors[n2][currentFrame].handle
    /\ created["set"] =
          Cardinality({n \in Names : descriptors[n].handle # VK_NULL_HANDLE})
          + Cardinality({n \in Names :
                           perFrameDescriptors[n][currentFrame].handle # VK_NULL_HANDLE})

C29_DrainBeforeAcquire ==
    [][/\ (fpc # "sf_drain" /\ fpc' = "sf_drain") => fpc = "sf_wait"
       /\ (fpc = "sf_acquire" /\ fpc' # "sf_acquire") => fpc' \in {"sf_lease", "idle"}]_vars

\* C30: while no thread holds the pool mutex of a queue, its freePoolCount is
\* the number of false entries of isSlotOccupied; so a caller of
\* lockCommandPool that has passed the wait finds a free slot in its scan, and
\* the assert(false) after the scan is not reached.
C30_CountMatchesOccupancy ==
    /\ \A q \in QueueIds :
          poolMutex[q] = NoThread => freePoolCount[q] = Cardinality(FreeSlots(q))
    /\ \A t \in Threads :
          (pc[t] = "lock_locked" /\ WaitPredicate(familyIndex[t])) =>
              FreeSlots(familyIndex[t]) # {}
    /\ ~aborted

\* a caller that had to wait has passed the wait with one slot of two free
C30_Witness ==
    \E t \in Threads :
        /\ pc[t] = "lock_locked"
        /\ waited[t]
        /\ coreCount = 2
        /\ freePoolCount[familyIndex[t]] = 1
        /\ Cardinality(FreeSlots(familyIndex[t])) = 1

\* ------------------------------------------------------- error handling
\* the step in which t returns from the failed open
FileNotFound(t) == cpc[t] = "sm_open" /\ cpc'[t] = "idle"

\* C31: when the shader file cannot be opened, shaderModuleFromCache returns
\* FILE_NOT_FOUND and no module, the cache is as it was, and the caller holds
\* shaderModuleMutex neither during the open nor after the return; a call that
\* finds no entry for the path goes on to open the file again.
C31_FileNotFoundLeavesNothing ==
    [][\A t \in Callers :
          /\ FileNotFound(t) =>
                /\ \E r \in returned' \ returned :
                      /\ r.caller = t /\ r.nth = calls[t]
                      /\ r.rc = "FILE_NOT_FOUND" /\ r.value = VK_NULL_HANDLE
                /\ shaderModules' = shaderModules
                /\ created' = created
                /\ \A m \in CacheMutexes : cacheMutex[m] # t /\ cacheMutex'[m] # t
                /\ cacheMutex' = cacheMutex
          /\ (cpc[t] = "sm_find" /\ cpc'[t] # "sm_find" /\ shaderModules = VK_NULL_HANDLE) =>
                cpc'[t] = "sm_open"]_vars

\* a call fails to open the file while the other caller is in its own call;
\* the same caller asks again, and this call builds and caches the module
C31_Witness ==
    \E r1 \in ShaderReturns, r2 \in ShaderReturns, r3 \in ShaderReturns :
        /\ r1.rc = "FILE_NOT_FOUND"
        /\ r2.caller = r1.caller /\ r2.nth > r1.nth
        /\ r2.rc = "OK" /\ r2.value = shaderModules /\ r2.value # VK_NULL_HANDLE
        /\ r3.caller # r1.caller /\ r3.rc = "OK"

\* the routines whose result is a layout handle
LayoutOps == {"descriptorSetLayoutFromCache", "PipelineBuilder::build"}

\* C32 as stated: a call whose layout creation failed in the driver returns a
\* status other than OK, and no call returns a null layout handle with OK.
C32_LayoutErrorsPropagate ==
    /\ \A r \in returned, c \in createCalls :
          (c.caller = r.caller /\ c.nth = r.nth /\ c.layout = VK_NULL_HANDLE) => r.rc # "OK"
    /\ \A r \in returned :
          (r.op \in LayoutOps /\ r.rc = "OK") => r.value # VK_NULL_HANDLE

\* the variant a layout was created as: buildPush (TRUE) or build (FALSE)
Creators(layout) == {c \in createCalls : c.layout = layout}

\* C33: the push flag is not part of the key of the descriptor-set-layout
\* cache. A layout is created once, as the variant its creating request asked
\* for, and every request with an equal description that gets a layout gets
\* that handle, whatever push flag it passes.
C33_VariantFixedByCreator ==
    /\ \A r1 \in LayoutReturns, r2 \in LayoutReturns :
          (SameShape(r1.set, r2.set) /\ r1.value # VK_NULL_HANDLE
                                     /\ r2.value # VK_NULL_HANDLE) => r1.value = r2.value
    /\ \A r \in LayoutReturns :
          r.value # VK_NULL_HANDLE =>
              /\ Cardinality(Creators(r.value)) = 1
              /\ \A c \in Creators(r.value) : SameShape(c.set, r.set)
    /\ \A set \in LayoutKeys : Cardinality(LayoutEntries(descriptorLayouts, set)) <= 1

\* a layout created as the push variant is returned to a request with an equal
\* description that asked for the allocatable variant
C33_Witness ==
    \E r1 \in LayoutReturns, r2 \in LayoutReturns :
        /\ r1.push /\ ~r2.push
        /\ r1.caller # r2.caller
        /\ SameShape(r1.set, r2.set) /\ r1.set # r2.set
        /\ r1.value # VK_NULL_HANDLE /\ r1.value = r2.value
        /\ \A c \in Creators(r1.value) : c.push /\ c.caller = r1.caller

\* the pools the allocator holds: on a list, or in the hands of a running alloc
Held == Range(readyPools) \cup Range(fullPools) \cup (IF apc = "alloc" THEN {poolToUse} ELSE {})
ClearPoolsStep == lastCall' = "clearPools" /\ allocatorCalls' = allocatorCalls + 1

\* C34: getPool creates a pool only when the ready list is empty, and then
\* every pool the allocator holds is on the full list, where only an exhausted
\* allocation since the last clearPools puts it; an alloc that ends puts its
\* pool on top of the ready list; clearPools moves every full pool to the
\* ready list and creates and destroys none.
C34_NoPoolWhileOneIsReady ==
    [][/\ GetPoolCreates =>
             /\ readyPools = <<>>
             /\ readyPools' = <<>>
             /\ Held \subseteq Range(fullPools')
       /\ (apc = "alloc" /\ apc' = "idle") =>
             /\ readyPools' = Append(readyPools, poolToUse)
             /\ Len(createInfos') = Len(createInfos)
       /\ ClearPoolsStep =>
             /\ readyPools' = readyPools \o fullPools
             /\ fullPools' = <<>>
             /\ Len(createInfos') = Len(createInfos)
             /\ livePools' = livePools]_vars

\* init(2000), an alloc that exhausted pool 1 and created pool 2, clearPools,
\* and an alloc that was served by pool 1 again: no third pool
C34_Witness ==
    /\ lastCall = "alloc" /\ apc = "idle" /\ allocResult = "VK_SUCCESS"
    /\ readyPools = <<2, 1>>
    /\ fullPools = <<>>
    /\ poolsCreated = 2 /\ poolsFailed = 0
    /\ Len(createInfos) = 2
    /\ createInfos[1].maxSets = 2000

\* the allocator was initialised before anything else was called on it
InitCalledFirst == createInfos # <<>> /\ createInfos[1].maxSets \in InitialSets
\* the pool alloc is about to allocate from is a pool nothing is allocated from
FromEmptyPool ==
    /\ InitCalledFirst
    /\ apc = "alloc"
    /\ poolToUse \in livePools
    /\ poolObjects[poolToUse].sets = 0

\* C35 as stated: the loop of alloc ends: the pools of the ready list are
\* finitely many, and the allocation from an empty pool, such as each pool
\* getPool creates, is not reported exhausted, so that alloc returns after it.
C35_AllocTerminates ==
    [][FromEmptyPool => apc' = "idle"]_vars

\* ------------------------------------------------------------ lock order
NoMutex == "none"
MutexesOf(t) == {m \in CacheMutexes : cacheMutex[m] = t}
\* the mutex t is about to lock
Wanted(t) ==
    CASE cpc[t] \in {"sm_lock", "sm_relock"} -> "shaderModuleMutex"
      [] cpc[t] = "dl_lock" -> "descriptorLayoutMutex"
      [] cpc[t] = "pl_lock" -> "pipelineLayoutMutex"
      [] cpc[t] = "ds_lock" -> "descriptorMutex"
      [] cpc[t] = "pf_lock" -> "perFrameDescriptorMutex"
      [] OTHER -> NoMutex
\* the thread that holds the mutex t is about to lock
WaitsFor(t) == IF Wanted(t) = NoMutex THEN NoThread ELSE cacheMutex[Wanted(t)]
\* following who waits for whom from t for n steps never meets a thread that can go on
RECURSIVE WaitChain(_, _)
WaitChain(t, n) ==
    IF WaitsFor(t) = NoThread THEN FALSE
    ELSE IF n = 0 THEN TRUE
    ELSE WaitChain(WaitsFor(t), n - 1)
\* the order the claim names: held first, taken second
LockOrder == {<<"descriptorMutex", "descriptorLayoutMutex">>,
              <<"perFrameDescriptorMutex", "descriptorLayoutMutex">>}

\* C36: a thread that locks a cache mutex while it holds another one holds
\* descriptorMutex or perFrameDescriptorMutex and locks descriptorLayoutMutex;
\* pipelineLayoutMutex and shaderModuleMutex are locked with no cache mutex
\* held; and in no interleaving of pipeline builds, build and buildPerFrame do
\* threads wait for each other's cache mutexes in a cycle.
C36_AcyclicLockOrder ==
    /\ \A t \in Callers : \A held \in MutexesOf(t) :
          Wanted(t) # NoMutex => <<held, Wanted(t)>> \in LockOrder
    /\ \A t \in Callers : \A m1 \in MutexesOf(t), m2 \in MutexesOf(t) :
          m1 # m2 => (<<m1, m2>> \in LockOrder \/ <<m2, m1>> \in LockOrder)
    /\ \A t \in Callers : ~WaitChain(t, NumCallers)

\* a build holds descriptorMutex and waits for descriptorLayoutMutex, which a
\* buildPerFrame holds together with perFrameDescriptorMutex
C36_Witness ==
    \E t1 \in Callers, t2 \in Callers :
        /\ MutexesOf(t1) = {"descriptorMutex"}
        /\ cpc[t1] = "dl_lock"
        /\ MutexesOf(t2) = {"perFrameDescriptorMutex", "descriptorLayoutMutex"}
        /\ cpc[t2] = "dl_build"

\* C37 as stated: on every device init accepts, the index lockCommandPool
\* chooses is smaller than state.queueCount: the Queue it leases from is one
\* createQueue initialised.
C37_QueueIndexInRange ==
    \A t \in Threads :
        pc[t] # "idle" => SelectQueue(desiredQueueFlags[t]) < queueCount

\* C38 as stated: with one thread driving the frame loop and no other lease
\* holder, the lease startFrame asks for is eventually granted, whatever the
\* number of command-pool slots createQueue made.
C38_FrameLeaseGranted ==
    (fpc = "sf_lease") ~> (fpc = "recording")

\* the same for the slot counts that are not below MAX_IN_FLIGHT_FRAMES
EnoughSlotsLeaseGranted ==
    (fpc = "sf_lease" /\ coreCount >= MAX_IN_FLIGHT_FRAMES) ~> (fpc = "recording")

\* ------------------------------------------------------------------ demo
\* the render thread is in its initialisation, or in a frame iteration between
\* the fence wait and the present
Initializing == rpc \in {"init", "pipelines", "store_initialized", "store_allow", "unlock"}
InFrame == rpc \in {"frame_check", "frame_fence", "frame_acquire", "frame_draw",
                    "frame_submit", "frame_present"}

\* C39: while winProc recreates the swapchain the render thread is neither in
\* its initialisation nor in a frame iteration, and isInitialized is set; each
\* side holds renderThreadMutex for the whole of its section.
C39_RecreateExcludesRendering ==
    /\ hpc = "recreate" =>
          /\ ~Initializing /\ ~InFrame
          /\ isInitialized
          /\ renderThreadMutex = "winProc"
    /\ (Initializing \/ InFrame) => renderThreadMutex = "render"

\* winProc recreates the swapchain while the render thread, two frames on,
\* waits for the mutex at the head of its next iteration
C39_Witness ==
    /\ hpc = "recreate"
    /\ rpc = "frame_lock"
    /\ renderFrame = 2
    /\ renderThreadMutex = "winProc"

\* C40: a buildPerFrame call made between a startFrame that returned frame
\* index i and the matching endFrame reads and writes only the i-th per-frame
\* variant of its name: every step that stores a per-frame variant or returns
\* from the call is taken while frame i is recorded, leaves the variants of
\* every other frame slot (and of every other name) as they were, and the
\* handle it returns is the handle of the i-th variant
PerFrameReturns(rs) == {r \in rs : r.op = "DescriptorSetBuilder::buildPerFrame"}

C40_OnlyCurrentVariant ==
    [][(perFrameDescriptors' # perFrameDescriptors \/ returned' # returned) =>
          /\ fpc = "recording"
          /\ frameIndex' = frameIndex
          /\ \A n \in Names, i \in FrameSlots :
                (i # frameIndex \/ n # call[RenderCaller].name) =>
                    perFrameDescriptors'[n][i] = perFrameDescriptors[n][i]
          /\ \A r \in PerFrameReturns(returned' \ returned) :
                r.value = perFrameDescriptors'[r.name][frameIndex].handle]_vars

\* the variants of frame slots 0 and 1 were built in two successive frames,
\* the variant of slot 2 was never touched
C40_Witness ==
    /\ fpc = "recording"
    /\ frameIndex = 1
    /\ perFrameDescriptors["gbuffer_pass"][0].handle # VK_NULL_HANDLE
    /\ perFrameDescriptors["gbuffer_pass"][1].handle # VK_NULL_HANDLE
    /\ perFrameDescriptors["gbuffer_pass"][0].handle #
            perFrameDescriptors["gbuffer_pass"][1].handle
    /\ perFrameDescriptors["gbuffer_pass"][2] = NoSet
    /\ Cardinality(PerFrameReturns(returned)) = 2

TypeOK ==
    /\ coreCount \in 1..MaxCores \cup 1..MaxFrameCores
    /\ currentFrame \in FrameSlots
    /\ \A q \in QueueIds : submitMutex[q] \in Threads \cup {NoThread}
    /\ \A q \in QueueIds : freePoolCount[q] \in 0..coreCount
    /\ \A q \in QueueIds : poolMutex[q] \in Threads \cup {NoThread}

====
